---- MODULE Spec2Model ----
(***************************************************************************)
(* The betting ledger of MLbBetTracker: the entity store (MemStorage), its *)
(* file persistence (FileStorage), the settlement arithmetic of            *)
(* updateBetResult and the game/recommendation ingestion paths of the      *)
(* HTTP routes and the daily scheduler.                                    *)
(*                                                                         *)
(* Numbers.  A JavaScript number is modelled as an exact rational          *)
(* [k |-> "fin", n, d] (n/d in lowest terms, d > 0) or one of the special  *)
(* values NaN, +Infinity, -Infinity.  The rounding of IEEE-754 doubles is  *)
(* not modelled: finite results are the exact quotients and products.      *)
(*                                                                         *)
(* Strings that the code parses (the odds) are sequences of one-character  *)
(* strings, so that startsWith, substring and parseInt are computed.       *)
(*                                                                         *)
(* A Map is a sequence of records in insertion order; Map.set on an        *)
(* existing key replaces the entry in place, as in JavaScript.             *)
(***************************************************************************)
EXTENDS Integers, Sequences, FiniteSets, TLC

(***************************************************************************)
(* Bounds of the model.                                                    *)
(***************************************************************************)
MaxCalls == 5
MaxBets == 2
MaxCreates == 3
MaxBatch == 2
MaxFetch == 2
MaxRefresh == 3
MaxDurable == 4
MaxFaulty == 3
MaxWrites == 3
MaxOverlap == 2
MaxSched == 4

(***************************************************************************)
(* JavaScript values.                                                      *)
(***************************************************************************)
Undefined == <<>>
Some(x) == <<x>>
IsDefined(o) == o # <<>>
Get(o) == o[1]

UndefStr == "<undefined>"
NullStr == "<null>"
\* The falsy strings of `x || y`: undefined, null and the empty string.
Falsy(s) == s \in {UndefStr, NullStr, ""}
OrElse(s, dflt) == IF Falsy(s) THEN dflt ELSE s

RECURSIVE GCD(_, _)
GCD(a, b) == IF b = 0 THEN a ELSE GCD(b, a % b)
Abs(i) == IF i < 0 THEN -i ELSE i
Sign(i) == IF i < 0 THEN -1 ELSE IF i > 0 THEN 1 ELSE 0

NaN == [k |-> "nan", n |-> 0, d |-> 1]
PInf == [k |-> "inf", n |-> 1, d |-> 1]
NInf == [k |-> "inf", n |-> -1, d |-> 1]
JsonNull == [k |-> "null", n |-> 0, d |-> 1]
\* n/d in lowest terms, d # 0.
Fin(n, d) ==
  LET g == GCD(Abs(n), Abs(d))
      s == IF d < 0 THEN -1 ELSE 1
  IN [k |-> "fin", n |-> s * (n \div g), d |-> s * (d \div g)]
Num(i) == Fin(i, 1)
IsFinite(x) == x.k = "fin"

NumNeg(x) ==
  IF x.k = "nan" THEN NaN ELSE [x EXCEPT !.n = -x.n]

NumAbs(x) ==
  IF x.k = "nan" THEN NaN ELSE [x EXCEPT !.n = Abs(x.n)]

\* x + y of JavaScript numbers.
NumAdd(x, y) ==
  CASE x.k = "nan" \/ y.k = "nan" -> NaN
    [] x.k = "inf" /\ y.k = "inf" -> IF x.n = y.n THEN x ELSE NaN
    [] x.k = "inf" -> x
    [] y.k = "inf" -> y
    [] OTHER -> Fin(x.n * y.d + y.n * x.d, x.d * y.d)

\* x * y of JavaScript numbers.
NumMul(x, y) ==
  CASE x.k = "nan" \/ y.k = "nan" -> NaN
    [] x.k = "inf" \/ y.k = "inf" ->
         IF Sign(x.n) * Sign(y.n) = 0 THEN NaN
         ELSE IF Sign(x.n) * Sign(y.n) > 0 THEN PInf ELSE NInf
    [] OTHER -> Fin(x.n * y.n, x.d * y.d)

\* x / y of JavaScript numbers (the divisors of the code are never -0).
NumDiv(x, y) ==
  CASE x.k = "nan" \/ y.k = "nan" -> NaN
    [] x.k = "inf" /\ y.k = "inf" -> NaN
    [] x.k = "inf" -> IF y.n < 0 THEN NumNeg(x) ELSE x
    [] y.k = "inf" -> Num(0)
    [] y.n = 0 -> IF x.n = 0 THEN NaN ELSE IF x.n > 0 THEN PInf ELSE NInf
    [] OTHER -> Fin(x.n * y.d, x.d * y.n)

(***************************************************************************)
(* Strings as character sequences, and parseInt.                           *)
(***************************************************************************)
Digits == {"0", "1", "2", "3", "4", "5", "6", "7", "8", "9"}
DigitVal ==
  ("0" :> 0) @@ ("1" :> 1) @@ ("2" :> 2) @@ ("3" :> 3) @@ ("4" :> 4) @@
  ("5" :> 5) @@ ("6" :> 6) @@ ("7" :> 7) @@ ("8" :> 8) @@ ("9" :> 9)

startsWith(s, c) == Len(s) >= 1 /\ s[1] = c
\* s.substring(1)
substring1(s) == IF Len(s) = 0 THEN s ELSE Tail(s)

RECURSIVE SkipSpaces(_)
SkipSpaces(s) ==
  IF Len(s) > 0 /\ s[1] = " " THEN SkipSpaces(Tail(s)) ELSE s

\* The value of the longest prefix of decimal digits of s, acc being the
\* value of the digits consumed so far.
RECURSIVE DigitsValue(_, _)
DigitsValue(s, acc) ==
  IF Len(s) > 0 /\ s[1] \in Digits
    THEN DigitsValue(Tail(s), 10 * acc + DigitVal[s[1]])
    ELSE acc

\* parseInt(s) with the default radix: leading white space is skipped, one
\* sign is accepted, the longest run of decimal digits is read, and the
\* result is NaN when there is no digit.  (Hexadecimal prefixes are outside
\* the alphabet of the model.)
parseInt(s) ==
  LET t == SkipSpaces(s)
      neg == startsWith(t, "-")
      u == IF startsWith(t, "-") \/ startsWith(t, "+") THEN Tail(t) ELSE t
  IN IF Len(u) > 0 /\ u[1] \in Digits
       THEN Num((IF neg THEN -1 ELSE 1) * DigitsValue(u, 0))
       ELSE NaN

(***************************************************************************)
(* The state: the fields of the storage singleton (MemStorage fields and   *)
(* the files of FileStorage), the wall clock, and the record of the last   *)
(* call (its arguments and how it ended).                                  *)
(***************************************************************************)
VARIABLES
  gamesData,            \* Map<number, Game>
  recommendationsData,  \* Map<number, Recommendation>
  betHistoryData,       \* Map<number, BetHistory>
  bankrollSettingsData, \* BankrollSettings | undefined
  gameId,               \* next game id
  recommendationId,     \* next recommendation id
  exportId,             \* next export id
  betHistoryId,         \* next bet id
  gamesFile,            \* data/games.json
  recommendationsFile,  \* data/recommendations.json
  bankrollFile,         \* data/bankroll.json
  betsFile,             \* data/bets.json
  countersFile,         \* data/counters.json
  corruptFiles,         \* the files whose content does not parse
  clock,                \* the value of the next `new Date()`
  lastCall,             \* the last call: operation, input, thrown error
  inflight,             \* the updateBetResult calls that are under way
  refreshes,            \* the game refreshes that are under way
  scheduler,            \* the Scheduler, its timer and the wall clock
  history               \* history: the successful bankroll-changing calls

memVars == <<gamesData, recommendationsData, betHistoryData,
             bankrollSettingsData, gameId, recommendationId, exportId,
             betHistoryId>>
fileVars == <<gamesFile, recommendationsFile, bankrollFile, betsFile,
              countersFile, corruptFiles>>
schedVars == <<refreshes, scheduler>>
vars == <<memVars, fileVars, clock, lastCall, inflight, schedVars, history>>

\* What happens to the file writes of one call.  The writes are numbered
\* 1, 2, ... in the order the call makes them: the writes in `fail` throw
\* (the file keeps its content), and when crashAt is k > 0 the process dies
\* at write k, which either never starts or leaves a torn file, and no
\* later write happens.  n counts the writes attempted so far.
NoFaults == [n |-> 0, fail |-> {}, crashAt |-> 0, torn |-> FALSE]

\* The storage object as one record, so that the methods compose.
Storage ==
  [gamesData |-> gamesData, recommendationsData |-> recommendationsData,
   betHistoryData |-> betHistoryData,
   bankrollSettingsData |-> bankrollSettingsData,
   gameId |-> gameId, recommendationId |-> recommendationId,
   exportId |-> exportId, betHistoryId |-> betHistoryId,
   gamesFile |-> gamesFile, recommendationsFile |-> recommendationsFile,
   bankrollFile |-> bankrollFile, betsFile |-> betsFile,
   countersFile |-> countersFile, corrupt |-> corruptFiles, io |-> NoFaults]

SetStorage(S) ==
  /\ gamesData' = S.gamesData
  /\ recommendationsData' = S.recommendationsData
  /\ betHistoryData' = S.betHistoryData
  /\ bankrollSettingsData' = S.bankrollSettingsData
  /\ gameId' = S.gameId
  /\ recommendationId' = S.recommendationId
  /\ exportId' = S.exportId
  /\ betHistoryId' = S.betHistoryId
  /\ gamesFile' = S.gamesFile
  /\ recommendationsFile' = S.recommendationsFile
  /\ bankrollFile' = S.bankrollFile
  /\ betsFile' = S.betsFile
  /\ countersFile' = S.countersFile
  /\ corruptFiles' = S.corrupt

\* The storage is S (used in the initial predicates).
StorageIs(S) ==
  /\ gamesData = S.gamesData
  /\ recommendationsData = S.recommendationsData
  /\ betHistoryData = S.betHistoryData
  /\ bankrollSettingsData = S.bankrollSettingsData
  /\ gameId = S.gameId
  /\ recommendationId = S.recommendationId
  /\ exportId = S.exportId
  /\ betHistoryId = S.betHistoryId
  /\ gamesFile = S.gamesFile
  /\ recommendationsFile = S.recommendationsFile
  /\ bankrollFile = S.bankrollFile
  /\ betsFile = S.betsFile
  /\ countersFile = S.countersFile
  /\ corruptFiles = S.corrupt

\* The constructor of MemStorage, and FileStorage on an empty directory.
NewStorage ==
  [gamesData |-> <<>>, recommendationsData |-> <<>>, betHistoryData |-> <<>>,
   bankrollSettingsData |-> Undefined,
   gameId |-> 1, recommendationId |-> 1, exportId |-> 1, betHistoryId |-> 1,
   gamesFile |-> Undefined, recommendationsFile |-> Undefined,
   bankrollFile |-> Undefined, betsFile |-> Undefined,
   countersFile |-> Undefined, corrupt |-> {}, io |-> NoFaults]

(***************************************************************************)
(* Map operations.                                                         *)
(***************************************************************************)
MapHas(m, id) == \E i \in 1..Len(m) : m[i].id = id
MapGet(m, id) ==
  IF MapHas(m, id)
    THEN Some(m[CHOOSE i \in 1..Len(m) : m[i].id = id])
    ELSE Undefined
MapSet(m, rec) ==
  IF MapHas(m, rec.id)
    THEN [i \in 1..Len(m) |-> IF m[i].id = rec.id THEN rec ELSE m[i]]
    ELSE Append(m, rec)
MapIds(m) == [i \in 1..Len(m) |-> m[i].id]
BetIn(m, id) == Get(MapGet(m, id))

(***************************************************************************)
(* JSON.stringify of the stored records: a Date becomes its ISO string, a  *)
(* number that is NaN or infinite becomes null.                            *)
(***************************************************************************)
\* An Invalid Date, whose JSON is null.
InvalidDate == -1
NullDate == -2
DateToJSON(t) == [iso |-> IF t = InvalidDate THEN NullDate ELSE t]
NumToJSON(x) == IF IsFinite(x) THEN x ELSE JsonNull

GameToJSON(g) ==
  [g EXCEPT !.uploadDate = DateToJSON(@), !.gameTime = DateToJSON(@)]
RecommendationToJSON(r) == [r EXCEPT !.generatedAt = DateToJSON(@)]
BetToJSON(b) ==
  [b EXCEPT !.betAmount = NumToJSON(@), !.profitLoss = NumToJSON(@),
            !.bankrollAfter = NumToJSON(@),
            !.createdAt = DateToJSON(@), !.updatedAt = DateToJSON(@)]
BankrollToJSON(b) ==
  [b EXCEPT !.initialAmount = NumToJSON(@), !.currentAmount = NumToJSON(@),
            !.createdAt = DateToJSON(@), !.updatedAt = DateToJSON(@)]

\* fs.writeFileSync inside the try/catch of a save method: what the next
\* write of the call does.
WriteFate(S) ==
  LET i == S.io.n + 1
  IN IF S.io.crashAt # 0 /\ i > S.io.crashAt THEN "dead"
     ELSE IF S.io.crashAt = i THEN (IF S.io.torn THEN "torn" ELSE "dead")
     ELSE IF i \in S.io.fail THEN "fail"
     ELSE "ok"
Attempted(S) == [S EXCEPT !.io.n = @ + 1]
Written(S, name) == [Attempted(S) EXCEPT !.corrupt = @ \ {name}]
Torn(S, name) == [Attempted(S) EXCEPT !.corrupt = @ \cup {name}]

saveGames(S) ==
  CASE WriteFate(S) = "ok" ->
         [Written(S, "games") EXCEPT !.gamesFile =
            Some([i \in 1..Len(S.gamesData) |-> GameToJSON(S.gamesData[i])])]
    [] WriteFate(S) = "torn" -> Torn(S, "games")
    [] OTHER -> Attempted(S)
saveRecommendations(S) ==
  CASE WriteFate(S) = "ok" ->
         [Written(S, "recommendations") EXCEPT !.recommendationsFile =
            Some([i \in 1..Len(S.recommendationsData) |->
                    RecommendationToJSON(S.recommendationsData[i])])]
    [] WriteFate(S) = "torn" -> Torn(S, "recommendations")
    [] OTHER -> Attempted(S)
saveBankroll(S) ==
  IF ~IsDefined(S.bankrollSettingsData) THEN S
  ELSE CASE WriteFate(S) = "ok" ->
              [Written(S, "bankroll") EXCEPT !.bankrollFile =
                 Some(BankrollToJSON(Get(S.bankrollSettingsData)))]
         [] WriteFate(S) = "torn" -> Torn(S, "bankroll")
         [] OTHER -> Attempted(S)
\* A saveBets whose failed write drops the bets from memory.
MutSaveBets(S) ==
  CASE WriteFate(S) = "ok" ->
         [Written(S, "bets") EXCEPT !.betsFile =
            Some([i \in 1..Len(S.betHistoryData) |->
                    BetToJSON(S.betHistoryData[i])])]
    [] WriteFate(S) = "fail" -> [Attempted(S) EXCEPT !.betHistoryData = <<>>]
    [] OTHER -> Attempted(S)

saveBets(S) ==
  CASE WriteFate(S) = "ok" ->
         [Written(S, "bets") EXCEPT !.betsFile =
            Some([i \in 1..Len(S.betHistoryData) |->
                    BetToJSON(S.betHistoryData[i])])]
    [] WriteFate(S) = "torn" -> Torn(S, "bets")
    [] OTHER -> Attempted(S)
saveCounters(S) ==
  CASE WriteFate(S) = "ok" ->
         [Written(S, "counters") EXCEPT !.countersFile =
            Some([gameId |-> S.gameId,
                  recommendationId |-> S.recommendationId,
                  exportId |-> S.exportId, betHistoryId |-> S.betHistoryId])]
    [] WriteFate(S) = "torn" -> Torn(S, "counters")
    [] OTHER -> Attempted(S)

(***************************************************************************)
(* Loading at start-up: JSON.parse of each file that exists, every date    *)
(* string back to a Date.  A number that was written as null stays null.   *)
(* Each load method has its own try/catch: a file that does not parse      *)
(* throws before the field is assigned, and the field keeps the value the  *)
(* constructor gave it.                                                    *)
(***************************************************************************)
DateFromJSON(j) == j.iso
GameFromJSON(g) ==
  [g EXCEPT !.uploadDate = DateFromJSON(@),
            !.gameTime = IF @.iso = NullDate THEN NullDate ELSE DateFromJSON(@)]
RecommendationFromJSON(r) == [r EXCEPT !.generatedAt = DateFromJSON(@)]
BetFromJSON(b) ==
  [b EXCEPT !.createdAt = DateFromJSON(@), !.updatedAt = DateFromJSON(@)]
BankrollFromJSON(b) ==
  [b EXCEPT !.createdAt = DateFromJSON(@), !.updatedAt = DateFromJSON(@)]

\* The map built by data.forEach(x => map.set(x.id, x)).
RECURSIVE MapOf(_, _)
MapOf(m, data) ==
  IF data = <<>> THEN m ELSE MapOf(MapSet(m, Head(data)), Tail(data))

Parses(S, name, file) == name \notin S.corrupt /\ IsDefined(file)

loadGames(S) ==
  IF Parses(S, "games", S.gamesFile)
    THEN [S EXCEPT !.gamesData =
            MapOf(<<>>, [i \in 1..Len(Get(S.gamesFile)) |->
                           GameFromJSON(Get(S.gamesFile)[i])])]
    ELSE S
loadRecommendations(S) ==
  IF Parses(S, "recommendations", S.recommendationsFile)
    THEN [S EXCEPT !.recommendationsData =
            MapOf(<<>>, [i \in 1..Len(Get(S.recommendationsFile)) |->
                           RecommendationFromJSON(Get(S.recommendationsFile)[i])])]
    ELSE S
loadBankroll(S) ==
  IF Parses(S, "bankroll", S.bankrollFile)
    THEN [S EXCEPT !.bankrollSettingsData =
            Some(BankrollFromJSON(Get(S.bankrollFile)))]
    ELSE S
loadBets(S) ==
  IF Parses(S, "bets", S.betsFile)
    THEN [S EXCEPT !.betHistoryData =
            MapOf(<<>>, [i \in 1..Len(Get(S.betsFile)) |->
                           BetFromJSON(Get(S.betsFile)[i])])]
    ELSE S
\* `data.gameId || 1`.
CounterOrOne(n) == IF n = 0 THEN 1 ELSE n
loadCounters(S) ==
  IF Parses(S, "counters", S.countersFile)
    THEN [S EXCEPT !.gameId = CounterOrOne(Get(S.countersFile).gameId),
                   !.recommendationId =
                      CounterOrOne(Get(S.countersFile).recommendationId),
                   !.exportId = CounterOrOne(Get(S.countersFile).exportId),
                   !.betHistoryId =
                      CounterOrOne(Get(S.countersFile).betHistoryId)]
    ELSE S

\* A loadData whose first failing file ends the loading.
MutLoadData(S) ==
  IF "games" \in S.corrupt THEN S
  ELSE IF "recommendations" \in S.corrupt THEN loadGames(S)
  ELSE IF "bankroll" \in S.corrupt THEN loadRecommendations(loadGames(S))
  ELSE IF "bets" \in S.corrupt
    THEN loadBankroll(loadRecommendations(loadGames(S)))
  ELSE loadCounters(loadBets(loadBankroll(loadRecommendations(loadGames(S)))))

loadData(S) ==
  loadCounters(loadBets(loadBankroll(loadRecommendations(loadGames(S)))))

\* new FileStorage() on the directory of S: the fields of the constructor,
\* then loadData.
NewFileStorage(S) ==
  loadData([NewStorage EXCEPT
              !.gamesFile = S.gamesFile,
              !.recommendationsFile = S.recommendationsFile,
              !.bankrollFile = S.bankrollFile,
              !.betsFile = S.betsFile,
              !.countersFile = S.countersFile,
              !.corrupt = S.corrupt])

(***************************************************************************)
(* Game and recommendation operations of MemStorage and their FileStorage  *)
(* overrides.  `this.createGame` inside createGames, and                   *)
(* `this.clearRecommendations` / `this.createRecommendation` inside        *)
(* createRecommendations, dispatch to the overrides, which save.           *)
(***************************************************************************)
\* A game that takes the id after the counter's (++this.gameId).
MutMemCreateGame(S, game, t) ==
  LET id == S.gameId + 1
      newGame == [id |-> id,
                  homeTeam |-> game.homeTeam,
                  awayTeam |-> game.awayTeam,
                  gameTime |-> game.gameTime,
                  source |-> OrElse(game.source, "Manual Upload"),
                  uploadDate |-> t]
  IN [S EXCEPT !.gameId = id, !.gamesData = MapSet(@, newGame)]

MemCreateGame(S, game, t) ==
  LET id == S.gameId
      newGame == [id |-> id,
                  homeTeam |-> game.homeTeam,
                  awayTeam |-> game.awayTeam,
                  gameTime |-> game.gameTime,
                  source |-> OrElse(game.source, "Manual Upload"),
                  uploadDate |-> t]
  IN [S EXCEPT !.gameId = id + 1, !.gamesData = MapSet(@, newGame)]

createGame(S, game, t) == saveCounters(saveGames(MemCreateGame(S, game, t)))

MemClearGames(S) == [S EXCEPT !.gamesData = <<>>, !.gameId = 1]

clearGames(S) == saveCounters(saveGames(MemClearGames(S)))

RECURSIVE MemCreateGames(_, _, _)
MemCreateGames(S, gamesArray, t) ==
  IF gamesArray = <<>> THEN S
  ELSE MemCreateGames(createGame(S, Head(gamesArray), t), Tail(gamesArray), t)

createGames(S, gamesArray, t) ==
  saveCounters(saveGames(MemCreateGames(S, gamesArray, t)))

MemCreateRecommendation(S, recommendation, t) ==
  LET id == S.recommendationId
      newRecommendation ==
        [id |-> id,
         game |-> recommendation.game,
         betType |-> recommendation.betType,
         odds |-> recommendation.odds,
         confidence |-> recommendation.confidence,
         prediction |-> recommendation.prediction,
         gameSource |-> "Manual Input",
         betTypeSource |-> "LLM",
         oddsSource |-> "LLM",
         confidenceSource |-> "LLM",
         predictionSource |-> "LLM",
         generatedAt |-> t]
  IN [S EXCEPT !.recommendationId = id + 1,
               !.recommendationsData = MapSet(@, newRecommendation)]

createRecommendation(S, recommendation, t) ==
  saveCounters(saveRecommendations(MemCreateRecommendation(S, recommendation, t)))

MemClearRecommendations(S) ==
  [S EXCEPT !.recommendationsData = <<>>, !.recommendationId = 1]

clearRecommendations(S) ==
  saveCounters(saveRecommendations(MemClearRecommendations(S)))

\* The loop of MemStorage.createRecommendations.
RECURSIVE CreateEachRecommendation(_, _, _)
CreateEachRecommendation(S, recommendationsArray, t) ==
  IF recommendationsArray = <<>> THEN S
  ELSE CreateEachRecommendation(
         createRecommendation(S, Head(recommendationsArray), t),
         Tail(recommendationsArray), t)

\* A replace-all that does not clear first.
MutMemCreateRecommendations(S, recommendationsArray, t) ==
  CreateEachRecommendation(S, recommendationsArray, t)

MemCreateRecommendations(S, recommendationsArray, t) ==
  CreateEachRecommendation(clearRecommendations(S), recommendationsArray, t)

createRecommendations(S, recommendationsArray, t) ==
  saveCounters(saveRecommendations(
    MemCreateRecommendations(S, recommendationsArray, t)))

(***************************************************************************)
(* Bankroll and bet operations of MemStorage, and their FileStorage        *)
(* overrides.  Each takes the storage S (and the time t of `new Date()`)   *)
(* and yields the storage after the call.                                  *)
(***************************************************************************)
ErrNotFound == "Bet with ID not found"
ErrNotInitialized == "Bankroll settings not initialized"
NoError == ""

MemSetBankrollSettings(S, settings, t) ==
  [S EXCEPT !.bankrollSettingsData =
     Some([id |-> 1,
           initialAmount |-> settings.initialAmount,
           currentAmount |-> settings.currentAmount,
           createdAt |-> t, updatedAt |-> t])]

setBankrollSettings(S, settings, t) ==
  saveBankroll(MemSetBankrollSettings(S, settings, t))

\* Called only where the bankroll record exists (the caller has checked, or
\* the throw of line 196 is taken by the action).
MemUpdateBankrollAmount(S, newAmount, t) ==
  [S EXCEPT !.bankrollSettingsData =
     Some([Get(S.bankrollSettingsData) EXCEPT !.currentAmount = newAmount,
                                              !.updatedAt = t])]

updateBankrollAmount(S, newAmount, t) ==
  saveBankroll(MemUpdateBankrollAmount(S, newAmount, t))

\* `bet.profitLoss || 0`: undefined, 0 and NaN are falsy.
ProfitLossOrZero(p) ==
  IF IsDefined(p) /\ Get(p).k # "nan" THEN Get(p) ELSE Num(0)

MemCreateBet(S, bet, t) ==
  LET id == S.betHistoryId
      newBet == [id |-> id,
                 recommendationId |-> bet.recommendationId,
                 date |-> bet.date,
                 game |-> bet.game,
                 betType |-> bet.betType,
                 confidence |-> bet.confidence,
                 predictedResult |-> bet.predictedResult,
                 odds |-> bet.odds,
                 betAmount |-> bet.betAmount,
                 bankrollAfter |-> bet.bankrollAfter,
                 createdAt |-> t,
                 updatedAt |-> t,
                 notes |-> OrElse(bet.notes, NullStr),
                 actualResult |-> OrElse(bet.actualResult, "pending"),
                 profitLoss |-> ProfitLossOrZero(bet.profitLoss)]
  IN [S EXCEPT !.betHistoryId = id + 1,
               !.betHistoryData = MapSet(@, newBet)]

\* A createBet that does not write the counters.
MutCreateBet(S, bet, t) == saveBets(MemCreateBet(S, bet, t))

createBet(S, bet, t) == saveCounters(saveBets(MemCreateBet(S, bet, t)))

\* A payout that forgets Math.abs on negative odds.
MutProfitLoss(bet, actualResult) ==
  IF actualResult = "win"
    THEN IF startsWith(bet.odds, "+")
           THEN NumMul(bet.betAmount,
                       NumDiv(parseInt(substring1(bet.odds)), Num(100)))
           ELSE NumMul(bet.betAmount, NumDiv(Num(100), parseInt(bet.odds)))
    ELSE IF actualResult = "loss"
           THEN NumNeg(bet.betAmount)
           ELSE Num(0)

\* Lines 243-259: the profit or loss of a bet for a declared result.
ProfitLoss(bet, actualResult) ==
  IF actualResult = "win"
    THEN IF startsWith(bet.odds, "+")
           THEN NumMul(bet.betAmount,
                       NumDiv(parseInt(substring1(bet.odds)), Num(100)))
           ELSE NumMul(bet.betAmount,
                       NumDiv(Num(100), NumAbs(parseInt(bet.odds))))
    ELSE IF actualResult = "loss"
           THEN NumNeg(bet.betAmount)
           ELSE Num(0)

\* A settlement that books every outcome as a gain.
MutNewBankrollAmount(currentAmount, profitLoss) ==
  NumAdd(currentAmount, NumAbs(profitLoss))

\* Line 268.
NewBankrollAmount(currentAmount, profitLoss) == NumAdd(currentAmount, profitLoss)

\* An update that leaves the bet's profitLoss as it was.
MutUpdatedBet(bet, update, profitLoss, newBankrollAmount, t) ==
  [bet EXCEPT !.actualResult = update.actualResult,
              !.bankrollAfter = newBankrollAmount,
              !.notes = OrElse(update.notes, bet.notes),
              !.updatedAt = t]

\* An update that stamps createdAt as well.
MutRestampBet(bet, update, profitLoss, newBankrollAmount, t) ==
  [bet EXCEPT !.actualResult = update.actualResult,
              !.profitLoss = profitLoss,
              !.bankrollAfter = newBankrollAmount,
              !.notes = OrElse(update.notes, bet.notes),
              !.createdAt = t,
              !.updatedAt = t]

\* Lines 274-281.
UpdatedBet(bet, update, profitLoss, newBankrollAmount, t) ==
  [bet EXCEPT !.actualResult = update.actualResult,
              !.profitLoss = profitLoss,
              !.bankrollAfter = newBankrollAmount,
              !.notes = OrElse(update.notes, bet.notes),
              !.updatedAt = t]

\* A settlement that reverses the bet's recorded profitLoss before it
\* applies the new one.
MutReverseOld(S, update, t) ==
  LET bet == MapGet(S.betHistoryData, update.id)
  IN IF ~IsDefined(bet)
       THEN [S |-> S, error |-> ErrNotFound]
       ELSE
         LET profitLoss == ProfitLoss(Get(bet), update.actualResult)
         IN IF ~IsDefined(S.bankrollSettingsData)
              THEN [S |-> S, error |-> ErrNotInitialized]
              ELSE
                LET newBankrollAmount ==
                      NumAdd(NumAdd(Get(S.bankrollSettingsData).currentAmount,
                                    NumNeg(Get(bet).profitLoss)),
                             profitLoss)
                    S1 == updateBankrollAmount(S, newBankrollAmount, t)
                    updatedBet == UpdatedBet(Get(bet), update, profitLoss,
                                             newBankrollAmount, t)
                IN [S |-> [S1 EXCEPT !.betHistoryData = MapSet(@, updatedBet)],
                    error |-> NoError]

\* A settlement that stores the result on the bet before it looks for the
\* bankroll.
MutBetBeforeBankroll(S, update, t) ==
  LET bet == MapGet(S.betHistoryData, update.id)
  IN IF ~IsDefined(bet)
       THEN [S |-> S, error |-> ErrNotFound]
       ELSE
         LET profitLoss == ProfitLoss(Get(bet), update.actualResult)
             stored == [Get(bet) EXCEPT !.actualResult = update.actualResult,
                                        !.profitLoss = profitLoss,
                                        !.updatedAt = t]
             S0 == [S EXCEPT !.betHistoryData = MapSet(@, stored)]
         IN IF ~IsDefined(S.bankrollSettingsData)
              THEN [S |-> S0, error |-> ErrNotInitialized]
              ELSE
                LET newBankrollAmount ==
                      NewBankrollAmount(
                        Get(S.bankrollSettingsData).currentAmount, profitLoss)
                    S1 == updateBankrollAmount(S0, newBankrollAmount, t)
                    updatedBet == UpdatedBet(Get(bet), update, profitLoss,
                                             newBankrollAmount, t)
                IN [S |-> [S1 EXCEPT !.betHistoryData = MapSet(@, updatedBet)],
                    error |-> NoError]

\* A settlement that looks for the bankroll before it looks for the bet.
MutBankrollBeforeBet(S, update, t) ==
  LET bet == MapGet(S.betHistoryData, update.id)
  IN IF ~IsDefined(S.bankrollSettingsData)
       THEN [S |-> S, error |-> ErrNotInitialized]
       ELSE
         IF ~IsDefined(bet)
           THEN [S |-> S, error |-> ErrNotFound]
           ELSE
             LET profitLoss == ProfitLoss(Get(bet), update.actualResult)
                 newBankrollAmount ==
                   NewBankrollAmount(
                     Get(S.bankrollSettingsData).currentAmount, profitLoss)
                 S1 == updateBankrollAmount(S, newBankrollAmount, t)
                 updatedBet == UpdatedBet(Get(bet), update, profitLoss,
                                          newBankrollAmount, t)
             IN [S |-> [S1 EXCEPT !.betHistoryData = MapSet(@, updatedBet)],
                 error |-> NoError]

\* MemStorage.updateBetResult on the storage singleton, whose
\* updateBankrollAmount is the FileStorage override.  The result is the
\* storage after the call and the message of the thrown error (NoError when
\* the call returns).
MemUpdateBetResult(S, update, t) ==
  LET bet == MapGet(S.betHistoryData, update.id)
  IN IF ~IsDefined(bet)
       THEN [S |-> S, error |-> ErrNotFound]
       ELSE
         LET profitLoss == ProfitLoss(Get(bet), update.actualResult)
         IN IF ~IsDefined(S.bankrollSettingsData)
              THEN [S |-> S, error |-> ErrNotInitialized]
              ELSE
                LET newBankrollAmount ==
                      NewBankrollAmount(
                        Get(S.bankrollSettingsData).currentAmount, profitLoss)
                    S1 == updateBankrollAmount(S, newBankrollAmount, t)
                    updatedBet == UpdatedBet(Get(bet), update, profitLoss,
                                             newBankrollAmount, t)
                IN [S |-> [S1 EXCEPT !.betHistoryData = MapSet(@, updatedBet)],
                    error |-> NoError]

\* FileStorage.updateBetResult.
updateBetResult(S, update, t) ==
  LET r == MemUpdateBetResult(S, update, t)
  IN IF r.error # NoError
       THEN r
       ELSE [S |-> saveBankroll(saveBets(r.S)), error |-> NoError]

(***************************************************************************)
(* Inputs of the ledger calls.                                             *)
(***************************************************************************)
Results == {"win", "loss", "pending"}

Odds120 == <<"+", "1", "2", "0">>
Odds150 == <<"+", "1", "5", "0">>
OddsM110 == <<"-", "1", "1", "0">>
OddsM200 == <<"-", "2", "0", "0">>
OddsNA == <<"N", "/", "A">>

BetInput(rec, odds, amount) ==
  [recommendationId |-> rec, date |-> "2025-04-01",
   game |-> "Yankees vs. Red Sox", betType |-> "Moneyline",
   confidence |-> 75, predictedResult |-> "Yankees Win",
   odds |-> odds, betAmount |-> amount,
   bankrollAfter |-> Num(0), notes |-> UndefStr, actualResult |-> UndefStr,
   profitLoss |-> Undefined]

\* The bets placed in the ledger specification: the two of the bankroll
\* page's usual shape, and one whose odds carry no number.
BetInputs ==
  {BetInput(1, Odds120, Num(50)), BetInput(2, OddsM110, Num(110)),
   BetInput(1, OddsNA, Num(75))}

BankrollInput(initial, current) ==
  [initialAmount |-> Num(initial), currentAmount |-> Num(current)]
BankrollInputs == {BankrollInput(500, 500), BankrollInput(500, 400)}

Updates ==
  [id : 1..(MaxBets + 1), actualResult : Results, notes : {UndefStr, "note"}]

(***************************************************************************)
(* The ledger calls.  Every call reads the clock once and records how it   *)
(* ended; a call that throws leaves the storage as the code left it.       *)
(***************************************************************************)
\* Entries of the history variable.
SetEntry(settings) ==
  [op |-> "set", id |-> 0, actualResult |-> "",
   initialAmount |-> settings.initialAmount,
   currentAmount |-> settings.currentAmount]
SettleEntry(update) ==
  [op |-> "settle", id |-> update.id, actualResult |-> update.actualResult,
   initialAmount |-> Num(0), currentAmount |-> Num(0)]

\* An updateBetResult call that has not started: the locals of the async
\* function, where it stands, and what it saw when it started.
NotStarted ==
  [pc |-> "idle",
   update |-> [id |-> 0, actualResult |-> "pending", notes |-> UndefStr],
   bet |-> Undefined, profitLoss |-> Num(0), bankrollSettings |-> Undefined,
   newBankrollAmount |-> Num(0), before |-> Undefined, overlapped |-> FALSE]
CallIds == 1..MaxOverlap

\* A game refresh that is not under way: which handler runs it, where it
\* stands, and what it has read so far.
NoRefresh ==
  [pc |-> "idle", op |-> "", apiKey |-> FALSE, openaiKey |-> FALSE,
   fetch |-> [ok |-> FALSE, games |-> <<>>], overlapped |-> FALSE]

\* The Scheduler after `new Scheduler(storage)`, with the two variables of
\* its module, the timers that setTimeout has armed and that have neither
\* fired nor been cleared, and the wall clock in minutes since a midnight.
DefaultRefreshTime == <<"0", "7", ":", "0", "0">>
NoTimer == 0
NewScheduler ==
  [refreshTime |-> DefaultRefreshTime,
   scheduledRefreshTimeout |-> NoTimer,
   lastScheduledTime |-> Undefined,
   timers |-> {},
   nextTimer |-> 1,
   now |-> 0]

\* A call that runs from start to end with no other call in between.
Called(op, input, error) ==
  /\ lastCall' = [op |-> op, input |-> input, error |-> error]
  /\ clock' = clock + 1
  /\ UNCHANGED <<inflight, schedVars>>

CreateBet(bet) ==
  /\ clock < MaxCalls
  /\ Len(betHistoryData) < MaxBets
  /\ SetStorage(createBet(Storage, bet, clock))
  /\ Called("createBet", bet, NoError)
  /\ UNCHANGED history

SetBankrollSettings(settings) ==
  /\ clock < MaxCalls
  /\ SetStorage(setBankrollSettings(Storage, settings, clock))
  /\ Called("setBankrollSettings", settings, NoError)
  /\ history' = Append(history, SetEntry(settings))

UpdateBetResult(update) ==
  /\ clock < MaxCalls
  /\ LET r == updateBetResult(Storage, update, clock)
     IN /\ SetStorage(r.S)
        /\ Called("updateBetResult", update, r.error)
        /\ history' =
             IF r.error = NoError
               THEN Append(history, SettleEntry(update))
               ELSE history

Init ==
  /\ StorageIs(NewStorage)
  /\ clock = 0
  /\ lastCall = [op |-> "new", input |-> [none |-> TRUE], error |-> NoError]
  /\ inflight = [c \in CallIds |-> NotStarted]
  /\ refreshes = [c \in CallIds |-> NoRefresh]
  /\ scheduler = NewScheduler
  /\ history = <<>>

Next ==
  \/ \E bet \in BetInputs : CreateBet(bet)
  \/ \E settings \in BankrollInputs : SetBankrollSettings(settings)
  \/ \E update \in Updates : UpdateBetResult(update)

Spec == Init /\ [][Next]_vars

(***************************************************************************)
(* The settlement arithmetic on its own: one bet, of any stake and odds of *)
(* the tables below, placed against a bankroll of 500 and settled again   *)
(* and again.                                                              *)
(***************************************************************************)
\* The odds strings of the settlement specification with the sign and the
\* number N that a reader sees in them ("none": no signed number).
OddsTable ==
  {[odds |-> Odds120, sign |-> "+", N |-> 120],
   [odds |-> Odds150, sign |-> "+", N |-> 150],
   [odds |-> <<"+", "1", "0", "0">>, sign |-> "+", N |-> 100],
   [odds |-> <<"+", "1", "0", "5">>, sign |-> "+", N |-> 105],
   [odds |-> OddsM110, sign |-> "-", N |-> 110],
   [odds |-> OddsM200, sign |-> "-", N |-> 200],
   [odds |-> <<"-", "1", "0", "0">>, sign |-> "-", N |-> 100],
   [odds |-> <<"-", "1", "3", "5">>, sign |-> "-", N |-> 135],
   [odds |-> OddsNA, sign |-> "none", N |-> 0],
   [odds |-> <<"E", "V", "E", "N">>, sign |-> "none", N |-> 0]}
SettleStakes == {Num(50), Num(110), Num(75), Fin(25, 2)}
SettleBetInputs ==
  {BetInput(1, e.odds, stake) : e \in OddsTable, stake \in SettleStakes}

SettlePlace ==
  \E bet \in SettleBetInputs :
    /\ Len(betHistoryData) = 0
    /\ CreateBet(bet)

SettleBankroll ==
  /\ ~IsDefined(bankrollSettingsData)
  /\ SetBankrollSettings(BankrollInput(500, 500))

SettleDeclare ==
  \E result \in Results :
    /\ UpdateBetResult([id |-> 1, actualResult |-> result, notes |-> UndefStr])

NextSettle == SettlePlace \/ SettleBankroll \/ SettleDeclare

SpecSettle == Init /\ [][NextSettle]_vars

(***************************************************************************)
(* The normal life of the ledger: the bankroll is set once, bets are       *)
(* placed pending, and a bet is settled only while it is pending, as win   *)
(* or loss.                                                                *)
(***************************************************************************)
OnceBetInputs ==
  {BetInput(1, Odds150, Num(50)), BetInput(2, OddsM200, Num(100)),
   BetInput(2, OddsNA, Num(75))}

OncePlace == \E bet \in OnceBetInputs : CreateBet(bet)

OnceBankroll ==
  \E settings \in BankrollInputs :
    /\ ~IsDefined(bankrollSettingsData)
    /\ SetBankrollSettings(settings)

OnceSettle ==
  \E update \in Updates :
    /\ update.actualResult \in {"win", "loss"}
    /\ MapHas(betHistoryData, update.id) =>
         BetIn(betHistoryData, update.id).actualResult = "pending"
    /\ UpdateBetResult(update)

NextOnce == OncePlace \/ OnceBankroll \/ OnceSettle

SpecOnce == Init /\ [][NextOnce]_vars

(***************************************************************************)
(* The entity store on its own: single creates, batch creates, clears and  *)
(* replace-all, in any order.                                              *)
(***************************************************************************)
SeqsUpTo(T, n) == UNION {[1..k -> T] : k \in 0..n}

GameInput(home, away, source) ==
  [homeTeam |-> home, awayTeam |-> away, gameTime |-> 1, source |-> source]
GameInputs ==
  {GameInput("Yankees", "Red Sox", UndefStr),
   GameInput("Dodgers", "Giants", "Uploaded Document")}

RecommendationInput(game, odds, confidence, source) ==
  [game |-> game, betType |-> "Moneyline", odds |-> odds,
   confidence |-> confidence, prediction |-> "Home Win",
   gameSource |-> source, betTypeSource |-> source, oddsSource |-> source,
   confidenceSource |-> source, predictionSource |-> source]
RecommendationInputs ==
  {RecommendationInput("Yankees vs. Red Sox", Odds150, 75, UndefStr),
   RecommendationInput("Dodgers vs. Giants", OddsM110, 60, "The Odds API")}

CreateGame(game) ==
  /\ clock < MaxCalls
  /\ Len(gamesData) < MaxCreates
  /\ SetStorage(createGame(Storage, game, clock))
  /\ Called("createGame", game, NoError)
  /\ UNCHANGED history

CreateGames(gamesArray) ==
  /\ clock < MaxCalls
  /\ Len(gamesData) + Len(gamesArray) <= MaxCreates
  /\ SetStorage(createGames(Storage, gamesArray, clock))
  /\ Called("createGames", [list |-> gamesArray], NoError)
  /\ UNCHANGED history

ClearGames ==
  /\ clock < MaxCalls
  /\ SetStorage(clearGames(Storage))
  /\ Called("clearGames", [none |-> TRUE], NoError)
  /\ UNCHANGED history

CreateRecommendation(recommendation) ==
  /\ clock < MaxCalls
  /\ Len(recommendationsData) < MaxCreates
  /\ SetStorage(createRecommendation(Storage, recommendation, clock))
  /\ Called("createRecommendation", recommendation, NoError)
  /\ UNCHANGED history

\* The record of the call also notes how many recommendations it replaced.
CreateRecommendations(recommendationsArray) ==
  /\ clock < MaxCalls
  /\ SetStorage(createRecommendations(Storage, recommendationsArray, clock))
  /\ Called("createRecommendations",
            [list |-> recommendationsArray,
             replaced |-> Len(recommendationsData)], NoError)
  /\ UNCHANGED history

ClearRecommendations ==
  /\ clock < MaxCalls
  /\ SetStorage(clearRecommendations(Storage))
  /\ Called("clearRecommendations", [none |-> TRUE], NoError)
  /\ UNCHANGED history

NextCreate ==
  \/ \E game \in GameInputs : CreateGame(game)
  \/ \E gamesArray \in SeqsUpTo(GameInputs, MaxBatch) : CreateGames(gamesArray)
  \/ ClearGames
  \/ \E recommendation \in RecommendationInputs :
       CreateRecommendation(recommendation)
  \/ \E recommendationsArray \in SeqsUpTo(RecommendationInputs, MaxBatch) :
       CreateRecommendations(recommendationsArray)
  \/ ClearRecommendations
  \/ \E bet \in BetInputs : CreateBet(bet)

SpecCreate == Init /\ [][NextCreate]_vars

(***************************************************************************)
(* The ingestion paths: POST /api/games (upload), POST /api/odds/refresh,  *)
(* POST /api/odds/fetch-and-generate and Scheduler.performRefresh.  The    *)
(* odds API and the language model are the environment: each call draws    *)
(* what they answer.                                                       *)
(***************************************************************************)
NonString == "<non-string>"
IsString(v) == v \notin {UndefStr, NullStr, NonString}

\* What fetchMLBGames can yield: a throw, or a list of games; a game's
\* gameTime is new Date(commence_time), an Invalid Date when that does not
\* parse.
FetchedGame(home, away, time) ==
  [homeTeam |-> home, awayTeam |-> away, gameTime |-> time,
   source |-> "The Odds API", rank |-> 0]
FetchedGames ==
  {[FetchedGame("Cubs", "Cardinals", 1) EXCEPT !.rank = 1],
   [FetchedGame("Mets", "Braves", 1) EXCEPT !.rank = 2],
   [FetchedGame("Astros", "Rangers", InvalidDate) EXCEPT !.rank = 3]}
\* Lists without repetition, in one order.
Ranked(l) == \A i, j \in 1..Len(l) : i < j => l[i].rank < l[j].rank
FetchFailed == [ok |-> FALSE, games |-> <<>>]
FetchOutcomes ==
  {FetchFailed} \cup
  {[ok |-> TRUE, games |-> l] :
     l \in {m \in SeqsUpTo(FetchedGames, MaxFetch) : Ranked(m)}}
NotFetched == [ok |-> FALSE, games |-> <<"not called">>]

\* insertGameSchema.parse(game) succeeds.
ValidGame(game) == game.gameTime # InvalidDate
AsInsertGame(game) ==
  [homeTeam |-> game.homeTeam, awayTeam |-> game.awayTeam,
   gameTime |-> game.gameTime, source |-> game.source]
RECURSIVE ValidatedGames(_)
ValidatedGames(games) ==
  IF games = <<>> THEN <<>>
  ELSE IF ValidGame(Head(games))
         THEN <<AsInsertGame(Head(games))>> \o ValidatedGames(Tail(games))
         ELSE ValidatedGames(Tail(games))

\* What the language model can answer: the call throws, the content is
\* empty, the content is not JSON with a recommendations array, or it is a
\* list of recommendations.
LLMRec(game, odds, confidence, prediction) ==
  [game |-> game, betType |-> "Moneyline", odds |-> odds,
   confidence |-> confidence, prediction |-> prediction, rank |-> 0]
LLMRecs ==
  {[LLMRec("Cubs vs. Cardinals", Odds150, 75, "Cubs Win") EXCEPT !.rank = 1],
   [LLMRec("Mets vs. Braves", <<"1", "5", "0">>, 60, "Mets Win")
      EXCEPT !.rank = 2],
   [LLMRec("Astros vs. Rangers", OddsM110, 55, NonString) EXCEPT !.rank = 3]}
LLMOutcomes ==
  {[kind |-> k, recommendations |-> <<>>] : k \in {"throw", "empty", "nojson"}}
  \cup
  {[kind |-> "recs", recommendations |-> l] :
     l \in {m \in SeqsUpTo(LLMRecs, MaxBatch) : Ranked(m)}}
NotAsked == [kind |-> "not called", recommendations |-> <<>>]

\* The hand-written checks of the answer (routes.ts:512-536 and the
\* scheduler's copy of them).
Truthy(v) == v \notin {UndefStr, NullStr, ""}
\* The checks without the one on the sign of the odds.
MutRecFormatOk(rec) ==
  /\ Truthy(rec.game) /\ Truthy(rec.betType) /\ rec.odds # <<>>
  /\ Truthy(rec.prediction)
  /\ rec.confidence >= 1 /\ rec.confidence <= 100

RecFormatOk(rec) ==
  /\ Truthy(rec.game) /\ Truthy(rec.betType) /\ rec.odds # <<>>
  /\ Truthy(rec.prediction)
  /\ rec.confidence >= 1 /\ rec.confidence <= 100
  /\ (startsWith(rec.odds, "+") \/ startsWith(rec.odds, "-"))
ResponseOk(llm) ==
  /\ llm.kind = "recs"
  /\ llm.recommendations # <<>>
  /\ \A i \in 1..Len(llm.recommendations) : RecFormatOk(llm.recommendations[i])

\* insertRecommendationSchema.parse(rec) succeeds: the text columns hold
\* strings.
SchemaOk(rec) ==
  IsString(rec.game) /\ IsString(rec.betType) /\ IsString(rec.prediction)

\* The recWithSources of the live-feed paths.
WithSources(rec) ==
  [game |-> rec.game, betType |-> rec.betType, odds |-> rec.odds,
   confidence |-> rec.confidence, prediction |-> rec.prediction,
   gameSource |-> "The Odds API", betTypeSource |-> "LLM",
   oddsSource |-> "The Odds API", confidenceSource |-> "LLM",
   predictionSource |-> "LLM"]
RECURSIVE ValidatedRecommendations(_)
ValidatedRecommendations(recs) ==
  IF recs = <<>> THEN <<>>
  ELSE IF SchemaOk(Head(recs))
         THEN <<WithSources(Head(recs))>> \o
              ValidatedRecommendations(Tail(recs))
         ELSE ValidatedRecommendations(Tail(recs))

Status400 == "400"
Status500 == "500"
Ended(S, error, fetched, asked) ==
  [S |-> S, error |-> error, fetched |-> fetched, asked |-> asked]

\* POST /api/games.
PostGames(S, parsedGames, t) ==
  IF \E i \in 1..Len(parsedGames) : ~ValidGame(parsedGames[i])
    THEN Ended(S, Status400, FALSE, FALSE)
    ELSE Ended(createGames(S, parsedGames, t), NoError, FALSE, FALSE)

\* POST /api/odds/refresh.
PostOddsRefresh(S, apiKey, fetch, t) ==
  IF ~apiKey THEN Ended(S, Status400, FALSE, FALSE)
  ELSE
    LET S1 == clearGames(S)
    IN IF ~fetch.ok THEN Ended(S1, Status500, TRUE, FALSE)
       ELSE IF fetch.games = <<>> THEN Ended(S1, NoError, TRUE, FALSE)
       ELSE IF \E i \in 1..Len(fetch.games) : ~ValidGame(fetch.games[i])
         THEN Ended(S1, Status400, TRUE, FALSE)
         ELSE Ended(createGames(S1, ValidatedGames(fetch.games), t),
                    NoError, TRUE, FALSE)

\* POST /api/odds/fetch-and-generate.
PostFetchAndGenerate(S, apiKey, fetch, llm, t) ==
  IF ~apiKey THEN Ended(S, Status400, FALSE, FALSE)
  ELSE IF ~fetch.ok THEN Ended(S, Status500, TRUE, FALSE)
  ELSE IF fetch.games = <<>> THEN Ended(S, Status400, TRUE, FALSE)
  ELSE IF \E i \in 1..Len(fetch.games) : ~ValidGame(fetch.games[i])
    THEN Ended(S, Status400, TRUE, FALSE)
  ELSE
    LET S1 == createGames(S, ValidatedGames(fetch.games), t)
    IN IF ~ResponseOk(llm) THEN Ended(S1, Status500, TRUE, TRUE)
       ELSE IF \E i \in 1..Len(llm.recommendations) :
                 ~SchemaOk(llm.recommendations[i])
         THEN Ended(S1, Status400, TRUE, TRUE)
         ELSE Ended(createRecommendations(
                      S1, ValidatedRecommendations(llm.recommendations), t),
                    NoError, TRUE, TRUE)

\* A scheduler that clears the old recommendations before it has checked
\* the answer.
MutGenerateRecommendations(S, openaiKey, llm, t) ==
  IF ~openaiKey THEN Ended(S, NoError, TRUE, FALSE)
  ELSE IF ~ResponseOk(llm)
    THEN Ended(clearRecommendations(S), NoError, TRUE, TRUE)
  ELSE Ended(createRecommendations(
               clearRecommendations(S),
               ValidatedRecommendations(llm.recommendations), t),
             NoError, TRUE, TRUE)

\* Scheduler.generateRecommendations.
generateRecommendations(S, openaiKey, llm, t) ==
  IF ~openaiKey THEN Ended(S, NoError, TRUE, FALSE)
  ELSE IF ~ResponseOk(llm) THEN Ended(S, NoError, TRUE, TRUE)
  ELSE Ended(createRecommendations(
               clearRecommendations(S),
               ValidatedRecommendations(llm.recommendations), t),
             NoError, TRUE, TRUE)

\* Scheduler.performRefresh, up to the storage (every error is caught and
\* logged, so the call always returns).
performRefresh(S, apiKey, openaiKey, fetch, llm, t) ==
  IF ~apiKey THEN Ended(S, NoError, FALSE, FALSE)
  ELSE
    LET S1 == clearGames(S)
    IN IF ~fetch.ok \/ fetch.games = <<>>
         THEN Ended(S1, NoError, TRUE, FALSE)
         ELSE
           LET S2 == createGames(S1, ValidatedGames(fetch.games), t)
           IN IF Len(ValidatedGames(fetch.games)) = 0
                THEN Ended(S2, NoError, TRUE, FALSE)
                ELSE generateRecommendations(S2, openaiKey, llm, t)

\* The record of an ingestion call keeps the answers that the handler
\* consumed.
Ingested(op, r, apiKey, fetch, llm) ==
  Called(op,
         [apiKey |-> apiKey,
          fetch |-> IF r.fetched THEN fetch ELSE NotFetched,
          llm |-> IF r.asked THEN llm ELSE NotAsked],
         r.error)

UploadGames(parsedGames) ==
  /\ clock < MaxRefresh
  /\ Len(gamesData) + Len(parsedGames) <= MaxCreates
  /\ LET r == PostGames(Storage, parsedGames, clock)
     IN /\ SetStorage(r.S)
        /\ Called("POST /api/games", [list |-> parsedGames], r.error)
  /\ UNCHANGED history

OddsRefresh(apiKey, fetch) ==
  /\ clock < MaxRefresh
  /\ LET r == PostOddsRefresh(Storage, apiKey, fetch, clock)
     IN /\ SetStorage(r.S)
        /\ Ingested("POST /api/odds/refresh", r, apiKey, fetch, NotAsked)
  /\ UNCHANGED history

FetchAndGenerate(apiKey, fetch, llm) ==
  /\ clock < MaxRefresh
  /\ Len(gamesData) + Len(fetch.games) <= MaxCreates
  /\ LET r == PostFetchAndGenerate(Storage, apiKey, fetch, llm, clock)
     IN /\ SetStorage(r.S)
        /\ Ingested("POST /api/odds/fetch-and-generate", r, apiKey, fetch, llm)
  /\ UNCHANGED history

PerformRefresh(apiKey, openaiKey, fetch, llm) ==
  /\ clock < MaxRefresh
  /\ LET r == performRefresh(Storage, apiKey, openaiKey, fetch, llm, clock)
     IN /\ SetStorage(r.S)
        /\ Ingested("performRefresh", r, apiKey, fetch, llm)
  /\ UNCHANGED history

NextRefresh ==
  \/ \E parsedGames \in SeqsUpTo(GameInputs, MaxBatch) \ {<<>>} :
       UploadGames(parsedGames)
  \/ \E apiKey \in BOOLEAN, fetch \in FetchOutcomes : OddsRefresh(apiKey, fetch)
  \/ \E apiKey \in BOOLEAN, fetch \in FetchOutcomes, llm \in LLMOutcomes :
       FetchAndGenerate(apiKey, fetch, llm)
  \/ \E apiKey \in BOOLEAN, openaiKey \in BOOLEAN,
        fetch \in FetchOutcomes, llm \in LLMOutcomes :
       PerformRefresh(apiKey, openaiKey, fetch, llm)

SpecRefresh == Init /\ [][NextRefresh]_vars

(***************************************************************************)
(* Durability: the mutating calls of the store with the fate of their file *)
(* writes, the restart of the process (a new FileStorage on the same       *)
(* directory), and what the environment does to the files.                 *)
(***************************************************************************)
FileNames == {"games", "recommendations", "bankroll", "bets", "counters"}
ErrCrashed == "process died"
NoArg == [none |-> TRUE]

\* One call of the storage singleton on S.
Apply(op, arg, S, t) ==
  CASE op = "createGame" -> [S |-> createGame(S, arg, t), error |-> NoError]
    [] op = "createGames" -> [S |-> createGames(S, arg, t), error |-> NoError]
    [] op = "clearGames" -> [S |-> clearGames(S), error |-> NoError]
    [] op = "createRecommendations" ->
         [S |-> createRecommendations(S, arg, t), error |-> NoError]
    [] op = "createBet" -> [S |-> createBet(S, arg, t), error |-> NoError]
    [] op = "setBankrollSettings" ->
         [S |-> setBankrollSettings(S, arg, t), error |-> NoError]
    [] op = "updateBankrollAmount" ->
         IF IsDefined(S.bankrollSettingsData)
           THEN [S |-> updateBankrollAmount(S, arg, t), error |-> NoError]
           ELSE [S |-> S, error |-> ErrNotInitialized]
    [] op = "updateBetResult" -> updateBetResult(S, arg, t)

\* The collections stay within the bounds of the model.
Fits(op, arg) ==
  CASE op = "createGame" -> Len(gamesData) < MaxCreates
    [] op = "createGames" -> Len(gamesData) + Len(arg) <= MaxCreates
    [] op = "createBet" -> Len(betHistoryData) < MaxBets
    [] OTHER -> TRUE

\* The call op(arg) whose writes fare as io says.  Every write that io
\* names is one the call makes.  When the process dies in the call, it is
\* started again on the files the call left.
StoreCall(op, arg, io, depth) ==
  /\ clock < depth
  /\ Fits(op, arg)
  /\ LET r == Apply(op, arg, [Storage EXCEPT !.io = io], clock)
     IN /\ \A k \in io.fail : k <= r.S.io.n
        /\ io.crashAt <= r.S.io.n
        /\ IF io.crashAt = 0
             THEN /\ SetStorage(r.S)
                  /\ Called(op, [arg |-> arg, io |-> io], r.error)
             ELSE /\ SetStorage(NewFileStorage(r.S))
                  /\ Called(op, [arg |-> arg, io |-> io], ErrCrashed)
  /\ UNCHANGED history

Restart ==
  /\ clock < MaxDurable
  /\ SetStorage(NewFileStorage(Storage))
  /\ Called("restart", [arg |-> NoArg, io |-> NoFaults], NoError)
  /\ UNCHANGED history

FileExists(name) ==
  CASE name = "games" -> IsDefined(gamesFile)
    [] name = "recommendations" -> IsDefined(recommendationsFile)
    [] name = "bankroll" -> IsDefined(bankrollFile)
    [] name = "bets" -> IsDefined(betsFile)
    [] name = "counters" -> IsDefined(countersFile)

\* Something outside the process damages one file.
CorruptFile(name) ==
  /\ corruptFiles = {}
  /\ FileExists(name)
  /\ corruptFiles' = {name}
  /\ UNCHANGED <<memVars, gamesFile, recommendationsFile, bankrollFile,
                 betsFile, countersFile, clock, lastCall, inflight, schedVars,
                 history>>

\* counters.json is removed.
DeleteCounters ==
  /\ IsDefined(countersFile)
  /\ countersFile' = Undefined
  /\ corruptFiles' = corruptFiles \ {"counters"}
  /\ UNCHANGED <<memVars, gamesFile, recommendationsFile, bankrollFile,
                 betsFile, clock, lastCall, inflight, schedVars, history>>

FailPlans == {[NoFaults EXCEPT !.fail = F] : F \in SUBSET (1..MaxWrites)}
CrashPlans ==
  {[NoFaults EXCEPT !.crashAt = k, !.torn = b] :
     k \in 1..MaxWrites, b \in BOOLEAN}

DurableGames == {GameInput("Yankees", "Red Sox", UndefStr)}
DurableRecommendations ==
  {RecommendationInput("Yankees vs. Red Sox", Odds150, 75, UndefStr)}
DurableBets == {BetInput(1, Odds120, Num(50)), BetInput(1, OddsNA, Num(75))}
DurableBankrolls == {BankrollInput(500, 500)}
DurableAmounts == {Num(450)}
DurableUpdates ==
  [id : 1..MaxBets, actualResult : {"win", "loss"}, notes : {UndefStr}]

\* The mutating calls, with their writes faring as one of the plans.
StoreCalls(plans, depth) ==
  \/ \E game \in DurableGames, io \in plans :
       StoreCall("createGame", game, io, depth)
  \/ \E gamesArray \in SeqsUpTo(DurableGames, MaxBatch), io \in plans :
       StoreCall("createGames", gamesArray, io, depth)
  \/ \E io \in plans : StoreCall("clearGames", NoArg, io, depth)
  \/ \E recommendationsArray \in SeqsUpTo(DurableRecommendations, MaxBatch),
        io \in plans :
       StoreCall("createRecommendations", recommendationsArray, io, depth)
  \/ \E bet \in DurableBets, io \in plans :
       StoreCall("createBet", bet, io, depth)
  \/ \E settings \in DurableBankrolls, io \in plans :
       StoreCall("setBankrollSettings", settings, io, depth)
  \/ \E newAmount \in DurableAmounts, io \in plans :
       StoreCall("updateBankrollAmount", newAmount, io, depth)
  \/ \E update \in DurableUpdates, io \in plans :
       StoreCall("updateBetResult", update, io, depth)

\* Calls whose writes all succeed, restarts, and one damaged file.
NextRestart ==
  \/ StoreCalls({NoFaults}, MaxDurable)
  \/ Restart
  \/ \E name \in FileNames : CorruptFile(name)
SpecRestart == Init /\ [][NextRestart]_vars

\* Calls some of whose writes fail.
NextFaults == StoreCalls(FailPlans, MaxFaulty)
SpecFaults == Init /\ [][NextFaults]_vars

\* Calls in which the process may die, and a lost or damaged counters file.
NextCrash ==
  \/ StoreCalls({NoFaults} \cup CrashPlans, MaxFaulty)
  \/ Restart
  \/ CorruptFile("counters")
  \/ DeleteCounters
SpecCrash == Init /\ [][NextCrash]_vars

(***************************************************************************)
(* Overlapping settlements.  FileStorage.updateBetResult is an async       *)
(* function: it runs until an await, and another call can run before it    *)
(* resumes.  Its awaits cut it into five pieces:                           *)
(*   1. look the bet up, compute profitLoss, call getBankrollSettings()    *)
(*      (which reads the record now) and await it;                         *)
(*   2. check the record read in 1, add profitLoss to ITS currentAmount,   *)
(*      and in updateBankrollAmount assign the new record in memory;       *)
(*   3. FileStorage.updateBankrollAmount resumes: saveBankroll;            *)
(*   4. MemStorage.updateBetResult resumes: build updatedBet from the bet  *)
(*      read in 1 and set it in the map;                                   *)
(*   5. FileStorage.updateBetResult resumes: saveBets, saveBankroll.       *)
(***************************************************************************)
Busy(c) == inflight[c].pc \notin {"idle", "done", "failed"}

\* Piece 1.
StartUpdateBetResult(c, update) ==
  /\ inflight[c].pc = "idle"
  /\ \A d \in CallIds : d < c => inflight[d].pc # "idle"
  /\ LET bet == MapGet(betHistoryData, update.id)
     IN IF ~IsDefined(bet)
          THEN /\ inflight' = [inflight EXCEPT ![c].pc = "failed",
                                               ![c].update = update]
               /\ lastCall' = [op |-> "updateBetResult", input |-> update,
                               error |-> ErrNotFound]
               /\ clock' = clock + 1
          ELSE /\ inflight' =
                    [inflight EXCEPT ![c] =
                       [pc |-> "getBankrollSettings",
                        update |-> update,
                        bet |-> bet,
                        profitLoss |-> ProfitLoss(Get(bet), update.actualResult),
                        bankrollSettings |-> bankrollSettingsData,
                        newBankrollAmount |-> Num(0),
                        before |-> IF IsDefined(bankrollSettingsData)
                                     THEN Some(Get(bankrollSettingsData).currentAmount)
                                     ELSE Undefined,
                        overlapped |-> \E d \in CallIds : Busy(d)]]
               /\ UNCHANGED <<lastCall, clock>>
  /\ UNCHANGED <<memVars, fileVars, schedVars, history>>

\* Piece 2.
ResumeWithBankroll(c) ==
  /\ inflight[c].pc = "getBankrollSettings"
  /\ IF ~IsDefined(inflight[c].bankrollSettings)
       THEN /\ inflight' = [inflight EXCEPT ![c].pc = "failed"]
            /\ lastCall' = [op |-> "updateBetResult",
                            input |-> inflight[c].update,
                            error |-> ErrNotInitialized]
            /\ clock' = clock + 1
            /\ UNCHANGED <<memVars, fileVars>>
       ELSE
         LET newBankrollAmount ==
               NewBankrollAmount(Get(inflight[c].bankrollSettings).currentAmount,
                                 inflight[c].profitLoss)
         IN /\ SetStorage(MemUpdateBankrollAmount(Storage, newBankrollAmount,
                                                  clock))
            /\ inflight' =
                 [inflight EXCEPT ![c].pc = "updateBankrollAmount",
                                  ![c].newBankrollAmount = newBankrollAmount]
            /\ UNCHANGED <<lastCall, clock>>
  /\ UNCHANGED <<schedVars, history>>

\* Piece 3.
ResumeSaveBankroll(c) ==
  /\ inflight[c].pc = "updateBankrollAmount"
  /\ SetStorage(saveBankroll(Storage))
  /\ inflight' = [inflight EXCEPT ![c].pc = "set"]
  /\ UNCHANGED <<lastCall, clock, schedVars, history>>

\* Piece 4.
ResumeSetBet(c) ==
  /\ inflight[c].pc = "set"
  /\ SetStorage([Storage EXCEPT !.betHistoryData =
                   MapSet(@, UpdatedBet(Get(inflight[c].bet),
                                        inflight[c].update,
                                        inflight[c].profitLoss,
                                        inflight[c].newBankrollAmount,
                                        clock))])
  /\ inflight' = [inflight EXCEPT ![c].pc = "save"]
  /\ UNCHANGED <<lastCall, clock, schedVars, history>>

\* Piece 5.
ResumeSaveAll(c) ==
  /\ inflight[c].pc = "save"
  /\ SetStorage(saveBankroll(saveBets(Storage)))
  /\ inflight' = [inflight EXCEPT ![c].pc = "done"]
  /\ lastCall' = [op |-> "updateBetResult", input |-> inflight[c].update,
                  error |-> NoError]
  /\ clock' = clock + 1
  /\ history' = Append(history, SettleEntry(inflight[c].update))
  /\ UNCHANGED schedVars

\* The bets and the bankroll are there before the settlements start.
Untouched == \A c \in CallIds : inflight[c].pc = "idle"
OverlapBets == {BetInput(1, Odds120, Num(50)), BetInput(2, OddsM110, Num(110))}
OverlapUpdates ==
  [id : 1..MaxBets, actualResult : {"win", "loss"}, notes : {UndefStr}]

NextOverlap ==
  \/ \E bet \in OverlapBets : Untouched /\ CreateBet(bet)
  \/ \E settings \in DurableBankrolls :
       Untouched /\ SetBankrollSettings(settings)
  \/ \E c \in CallIds, update \in OverlapUpdates :
       StartUpdateBetResult(c, update)
  \/ \E c \in CallIds : ResumeWithBankroll(c)
  \/ \E c \in CallIds : ResumeSaveBankroll(c)
  \/ \E c \in CallIds : ResumeSetBet(c)
  \/ \E c \in CallIds : ResumeSaveAll(c)
SpecOverlap == Init /\ [][NextOverlap]_vars

(***************************************************************************)
(* Placing bets over HTTP.  The bodies are what any client can send, not   *)
(* only what the bankroll page's form lets through.  The route parses the  *)
(* body with insertBetHistorySchema and hands it to the store, as the      *)
(* other POST routes do with their schemas.                                *)
(***************************************************************************)
\* insertBetHistorySchema.parse(body) succeeds: the columns without a
\* default are present with their type; a real or integer column is any
\* number.
InsertBetHistoryOk(body) ==
  /\ IsString(body.date) /\ IsString(body.game) /\ IsString(body.betType)
  /\ IsString(body.predictedResult)
  /\ body.actualResult # NullStr

\* betFormSchema of the bankroll page.
BetFormOk(body) ==
  /\ IsString(body.date) /\ body.date # ""
  /\ body.confidence >= 1 /\ body.confidence <= 100
  /\ IsFinite(body.betAmount) /\ body.betAmount.n > 0

PostBets(S, body, t) ==
  IF InsertBetHistoryOk(body)
    THEN [S |-> createBet(S, body, t), error |-> NoError]
    ELSE [S |-> S, error |-> Status400]

PlainBet == BetInput(1, Odds120, Num(50))
BetBodies ==
  {PlainBet,
   [PlainBet EXCEPT !.betAmount = Num(0)],
   [PlainBet EXCEPT !.betAmount = Num(-5)],
   [PlainBet EXCEPT !.confidence = 0],
   [PlainBet EXCEPT !.confidence = 101],
   [PlainBet EXCEPT !.date = UndefStr],
   [PlainBet EXCEPT !.actualResult = "win", !.profitLoss = Some(Num(100))],
   [PlainBet EXCEPT !.profitLoss = Some(Num(25))]}
PlaceBankrolls ==
  {BankrollInput(500, 500), BankrollInput(1000, 1000),
   BankrollInput(-100, 500), BankrollInput(500, -1)}

PlaceBet(body) ==
  /\ clock < MaxCalls
  /\ Len(betHistoryData) < MaxBets
  /\ LET r == PostBets(Storage, body, clock)
     IN /\ SetStorage(r.S)
        /\ Called("POST /api/bets", body, r.error)
  /\ UNCHANGED history

NextPlace ==
  \/ \E body \in BetBodies : PlaceBet(body)
  \/ \E body \in BetBodies : CreateBet(body)
  \/ \E settings \in PlaceBankrolls : SetBankrollSettings(settings)
  \/ \E update \in OverlapUpdates : UpdateBetResult(update)
SpecPlace == Init /\ [][NextPlace]_vars

(***************************************************************************)
(* The paths that store recommendations: POST /api/recommendations/        *)
(* generate, POST /api/odds/fetch-and-generate, the scheduler, and the     *)
(* store's own createRecommendation(s).                                    *)
(***************************************************************************)
\* gameStr.match(/(.+?)\s+vs\.\s+(.+)$/i) on the game strings of the model:
\* the two team names, or <<>> when the string does not match.
TeamsOf(gameStr) ==
  CASE gameStr = "Yankees vs. Red Sox" -> <<"Yankees", "Red Sox">>
    [] gameStr = "Cubs vs. Cardinals" -> <<"Cubs", "Cardinals">>
    [] gameStr = "Mets vs. Braves" -> <<"Mets", "Braves">>
    [] gameStr = "Astros vs. Rangers" -> <<"Astros", "Rangers">>
    [] OTHER -> <<>>

\* The source of the stored game that the recommendation names (teams in
\* either order), "LLM" when there is none or it has no source.
GameSourceOf(games, gameStr) ==
  LET teams == TeamsOf(gameStr)
      Matches(g) ==
        /\ teams # <<>>
        /\ \/ g.homeTeam = teams[1] /\ g.awayTeam = teams[2]
           \/ g.homeTeam = teams[2] /\ g.awayTeam = teams[1]
  IN IF \E i \in 1..Len(games) : Matches(games[i])
       THEN LET g == games[CHOOSE i \in 1..Len(games) :
                             /\ Matches(games[i])
                             /\ \A j \in 1..(i - 1) : ~Matches(games[j])]
            IN IF Truthy(g.source) THEN g.source ELSE "LLM"
       ELSE "LLM"

\* The recWithSources of POST /api/recommendations/generate.
WithMatchedSource(games, rec) ==
  [game |-> rec.game, betType |-> rec.betType, odds |-> rec.odds,
   confidence |-> rec.confidence, prediction |-> rec.prediction,
   gameSource |-> GameSourceOf(games, rec.game), betTypeSource |-> "LLM",
   oddsSource |-> "LLM", confidenceSource |-> "LLM",
   predictionSource |-> "LLM"]

\* The loop over the answer: a game that is no string makes gameStr.match
\* throw a TypeError (500), a recommendation that fails
\* insertRecommendationSchema throws a ZodError (400); the first of them
\* ends the request.
RECURSIVE LoopStatus(_)
LoopStatus(recs) ==
  IF recs = <<>> THEN NoError
  ELSE IF ~IsString(Head(recs).game) THEN Status500
  ELSE IF ~SchemaOk(Head(recs)) THEN Status400
  ELSE LoopStatus(Tail(recs))

\* POST /api/recommendations/generate.
PostGenerate(S, llm, t) ==
  IF S.gamesData = <<>> THEN Ended(S, Status400, FALSE, FALSE)
  ELSE IF ~ResponseOk(llm) THEN Ended(S, Status500, FALSE, TRUE)
  ELSE IF LoopStatus(llm.recommendations) # NoError
    THEN Ended(S, LoopStatus(llm.recommendations), FALSE, TRUE)
    ELSE Ended(createRecommendations(
                 S,
                 [i \in 1..Len(llm.recommendations) |->
                    WithMatchedSource(S.gamesData, llm.recommendations[i])],
                 t),
               NoError, FALSE, TRUE)

Generate(llm) ==
  /\ clock < MaxRefresh
  /\ LET r == PostGenerate(Storage, llm, clock)
     IN /\ SetStorage(r.S)
        /\ Ingested("POST /api/recommendations/generate", r, TRUE,
                    NotFetched, llm)
  /\ UNCHANGED history

\* What the language model answers here: also a confidence out of range
\* and a recommendation without its game.
AdviceRecs ==
  {[LLMRec("Cubs vs. Cardinals", Odds150, 75, "Cubs Win") EXCEPT !.rank = 1],
   [LLMRec("Mets vs. Braves", <<"1", "5", "0">>, 60, "Mets Win")
      EXCEPT !.rank = 2],
   [LLMRec("Astros vs. Rangers", OddsM110, 55, NonString) EXCEPT !.rank = 3],
   [LLMRec("Yankees vs. Red Sox", OddsM110, 0, "Yankees Win")
      EXCEPT !.rank = 4],
   [LLMRec(UndefStr, Odds120, 80, "Home Win") EXCEPT !.rank = 5]}
AdviceOutcomes ==
  {[kind |-> k, recommendations |-> <<>>] : k \in {"throw", "empty", "nojson"}}
  \cup
  {[kind |-> "recs", recommendations |-> l] :
     l \in {m \in SeqsUpTo(AdviceRecs, MaxBatch) : Ranked(m)}}
\* The odds API answers with one game here; its other answers are those of
\* the ingestion paths above.
AdviceFetches ==
  {[ok |-> TRUE, games |-> <<FetchedGame("Cubs", "Cardinals", 1)>>]}

\* What a caller inside the server can hand to the store.
RawRecommendations ==
  {RecommendationInput("Yankees vs. Red Sox", Odds150, 75, UndefStr),
   RecommendationInput("Yankees vs. Red Sox", <<"1", "5", "0">>, 75, UndefStr),
   RecommendationInput("Dodgers vs. Giants", OddsM110, 0, UndefStr)}

NextAdvice ==
  \/ \E game \in GameInputs : UploadGames(<<game>>)
  \/ \E llm \in AdviceOutcomes : Generate(llm)
  \/ \E apiKey \in BOOLEAN, fetch \in AdviceFetches, llm \in AdviceOutcomes :
       FetchAndGenerate(apiKey, fetch, llm)
  \/ \E fetch \in AdviceFetches, llm \in AdviceOutcomes :
       PerformRefresh(TRUE, TRUE, fetch, llm)
  \/ \E rec \in RawRecommendations :
       clock < MaxRefresh /\ CreateRecommendation(rec)
  \/ \E rec1 \in RawRecommendations, rec2 \in RawRecommendations :
       clock < MaxRefresh /\ CreateRecommendations(<<rec1, rec2>>)
SpecAdvice == Init /\ [][NextAdvice]_vars

(***************************************************************************)
(* The Scheduler: initialize, setRefreshTime, scheduleNextRefresh,         *)
(* performRefresh (fired by the timer or through manualRefresh), and the   *)
(* POST /api/odds/refresh handler next to it.  A refresh is cut at its     *)
(* awaits on the odds API and on the language model; between the pieces    *)
(* any other handler may run.  `clock` orders the steps and stamps the     *)
(* stored records; scheduler.now is the wall clock that the Scheduler      *)
(* reads, in minutes.                                                      *)
(***************************************************************************)
MinutesPerHour == 60
MinutesPerDay == 1440

\* /^([01]\d|2[0-3]):([0-5]\d)$/.test(time)
TimeOk(time) ==
  /\ Len(time) = 5
  /\ \/ time[1] \in {"0", "1"} /\ time[2] \in Digits
     \/ time[1] = "2" /\ time[2] \in {"0", "1", "2", "3"}
  /\ time[3] = ":"
  /\ time[4] \in {"0", "1", "2", "3", "4", "5"}
  /\ time[5] \in Digits

\* const [hours, minutes] = this.refreshTime.split(':').map(Number), as
\* minutes after midnight.
MinutesOf(time) ==
  (10 * DigitVal[time[1]] + DigitVal[time[2]]) * MinutesPerHour
  + 10 * DigitVal[time[4]] + DigitVal[time[5]]

\* clearTimeout(handle): a timer that has fired is no longer among the
\* pending ones, and clearing it does nothing.
clearTimeout(timers, handle) == {timer \in timers : timer.id # handle}

\* scheduleNextRefresh that takes a refresh time equal to now for today's.
MutScheduleNextRefresh(sch) ==
  LET today == (sch.now \div MinutesPerDay) * MinutesPerDay
               + MinutesOf(sch.refreshTime)
      scheduledTime == IF today < sch.now THEN today + MinutesPerDay ELSE today
      delay == scheduledTime - sch.now
  IN [sch EXCEPT
        !.timers = clearTimeout(@, sch.scheduledRefreshTimeout) \cup
                     {[id |-> sch.nextTimer, due |-> sch.now + delay]},
        !.scheduledRefreshTimeout = sch.nextTimer,
        !.nextTimer = @ + 1,
        !.lastScheduledTime = Some(scheduledTime)]

\* scheduleNextRefresh that arms the new timer and leaves the old one.
MutScheduleNoClear(sch) ==
  LET today == (sch.now \div MinutesPerDay) * MinutesPerDay
               + MinutesOf(sch.refreshTime)
      scheduledTime == IF today <= sch.now THEN today + MinutesPerDay ELSE today
      delay == scheduledTime - sch.now
  IN [sch EXCEPT
        !.timers = @ \cup {[id |-> sch.nextTimer, due |-> sch.now + delay]},
        !.scheduledRefreshTimeout = sch.nextTimer,
        !.nextTimer = @ + 1,
        !.lastScheduledTime = Some(scheduledTime)]

scheduleNextRefresh(sch) ==
  LET today == (sch.now \div MinutesPerDay) * MinutesPerDay
               + MinutesOf(sch.refreshTime)
      scheduledTime == IF today <= sch.now THEN today + MinutesPerDay ELSE today
      delay == scheduledTime - sch.now
  IN [sch EXCEPT
        !.timers = clearTimeout(@, sch.scheduledRefreshTimeout) \cup
                     {[id |-> sch.nextTimer, due |-> sch.now + delay]},
        !.scheduledRefreshTimeout = sch.nextTimer,
        !.nextTimer = @ + 1,
        !.lastScheduledTime = Some(scheduledTime)]

setRefreshTime(sch, time) ==
  IF ~TimeOk(time) THEN sch
  ELSE scheduleNextRefresh([sch EXCEPT !.refreshTime = time])

\* savedRefreshTime is process.env.REFRESH_TIME || '07:00'.
initialize(sch, savedRefreshTime) ==
  scheduleNextRefresh(setRefreshTime(sch, savedRefreshTime))

\* A step of the scheduler's side: it is the last call, and the clock moves.
Ran(op, input, error) ==
  /\ lastCall' = [op |-> op, input |-> input, error |-> error]
  /\ clock' = clock + 1
  /\ UNCHANGED <<inflight, history>>

Initialize(savedRefreshTime) ==
  /\ clock < MaxSched
  /\ scheduler' = initialize(scheduler, savedRefreshTime)
  /\ Ran("initialize", [time |-> savedRefreshTime], NoError)
  /\ UNCHANGED <<memVars, fileVars, refreshes>>

SetRefreshTime(time) ==
  /\ clock < MaxSched
  /\ scheduler' = setRefreshTime(scheduler, time)
  /\ Ran("setRefreshTime", [time |-> time], NoError)
  /\ UNCHANGED <<memVars, fileVars, refreshes>>

\* Time passes.
Tick(minutes) ==
  /\ clock < MaxSched
  /\ scheduler' = [scheduler EXCEPT !.now = @ + minutes]
  /\ Ran("tick", [minutes |-> minutes], NoError)
  /\ UNCHANGED <<memVars, fileVars, refreshes>>

RefreshBusy(c) == refreshes[c].pc \in {"fetching", "asking"}
Begun(c, op, apiKey) ==
  [NoRefresh EXCEPT !.op = op, !.apiKey = apiKey,
                    !.overlapped = \E d \in CallIds \ {c} : RefreshBusy(d)]

\* The end of a performRefresh run: the finally block.
EndPerformRefresh(c, run, sch) ==
  /\ refreshes' = [refreshes EXCEPT ![c] = [run EXCEPT !.pc = "done"]]
  /\ scheduler' = scheduleNextRefresh(sch)
  /\ Ran("performRefresh", run, NoError)

\* performRefresh up to its await on the odds API.  `fired` is the timer
\* that started the run (NoTimer for manualRefresh); the storage is the
\* one the Scheduler was constructed with, and a call on it throws when it
\* is not usable.
BeginPerformRefresh(c, fired, apiKey, usable) ==
  /\ clock < MaxSched
  /\ ~RefreshBusy(c)
  /\ LET sch == [scheduler EXCEPT !.timers = {t \in @ : t.id # fired}]
         run == Begun(c, "performRefresh", apiKey)
     IN IF ~apiKey \/ ~usable
          THEN /\ EndPerformRefresh(c, run, sch)
               /\ UNCHANGED <<memVars, fileVars>>
          ELSE /\ SetStorage(clearGames(Storage))
               /\ refreshes' =
                    [refreshes EXCEPT ![c] = [run EXCEPT !.pc = "fetching"]]
               /\ scheduler' = sch
               /\ Ran("performRefresh: clearGames", run, NoError)

\* setTimeout's callback: the timer is due.
TimerFires(c, apiKey, usable) ==
  \E timer \in scheduler.timers :
    /\ timer.due <= scheduler.now
    /\ BeginPerformRefresh(c, timer.id, apiKey, usable)

ManualRefresh(c, apiKey, usable) ==
  BeginPerformRefresh(c, NoTimer, apiKey, usable)

\* performRefresh from the answer of the odds API to its await on the
\* language model.
PerformRefreshFetched(c, fetch, openaiKey) ==
  /\ clock < MaxSched
  /\ refreshes[c].pc = "fetching" /\ refreshes[c].op = "performRefresh"
  /\ Len(gamesData) + Len(fetch.games) <= MaxCreates
  /\ LET run == [refreshes[c] EXCEPT !.fetch = fetch, !.openaiKey = openaiKey]
         validatedGames == ValidatedGames(fetch.games)
     IN IF ~fetch.ok \/ fetch.games = <<>>
          THEN /\ EndPerformRefresh(c, run, scheduler)
               /\ UNCHANGED <<memVars, fileVars>>
          ELSE /\ SetStorage(createGames(Storage, validatedGames, clock))
               /\ IF validatedGames = <<>> \/ ~openaiKey
                    THEN EndPerformRefresh(c, run, scheduler)
                    ELSE /\ refreshes' =
                              [refreshes EXCEPT ![c] =
                                 [run EXCEPT !.pc = "asking"]]
                         /\ Ran("performRefresh: createGames", run, NoError)
                         /\ UNCHANGED scheduler

\* performRefresh from the answer of the language model to its end.
PerformRefreshAnswered(c, llm) ==
  /\ clock < MaxSched
  /\ refreshes[c].pc = "asking"
  /\ SetStorage(generateRecommendations(Storage, TRUE, llm, clock).S)
  /\ EndPerformRefresh(c, refreshes[c], scheduler)

\* POST /api/odds/refresh up to its await on the odds API.
BeginOddsRefresh(c, apiKey) ==
  /\ clock < MaxSched
  /\ ~RefreshBusy(c)
  /\ LET run == Begun(c, "POST /api/odds/refresh", apiKey)
     IN IF ~apiKey
          THEN /\ refreshes' =
                    [refreshes EXCEPT ![c] = [run EXCEPT !.pc = "done"]]
               /\ Ran("POST /api/odds/refresh", run, Status400)
               /\ UNCHANGED <<memVars, fileVars>>
          ELSE /\ SetStorage(clearGames(Storage))
               /\ refreshes' =
                    [refreshes EXCEPT ![c] = [run EXCEPT !.pc = "fetching"]]
               /\ Ran("POST /api/odds/refresh: clearGames", run, NoError)
  /\ UNCHANGED scheduler

\* POST /api/odds/refresh from the answer of the odds API to its response.
OddsRefreshFetched(c, fetch) ==
  /\ clock < MaxSched
  /\ refreshes[c].pc = "fetching"
  /\ refreshes[c].op = "POST /api/odds/refresh"
  /\ Len(gamesData) + Len(fetch.games) <= MaxCreates
  /\ LET run == [refreshes[c] EXCEPT !.fetch = fetch, !.pc = "done"]
         error == IF ~fetch.ok THEN Status500
                  ELSE IF \E i \in 1..Len(fetch.games) :
                            ~ValidGame(fetch.games[i])
                    THEN Status400
                    ELSE NoError
     IN /\ IF error = NoError /\ fetch.games # <<>>
             THEN SetStorage(createGames(Storage, ValidatedGames(fetch.games),
                                         clock))
             ELSE UNCHANGED <<memVars, fileVars>>
        /\ refreshes' = [refreshes EXCEPT ![c] = run]
        /\ Ran("POST /api/odds/refresh", run, error)
  /\ UNCHANGED scheduler

\* What the environment hands to the scheduler.
RefreshTimes ==
  {DefaultRefreshTime,
   <<"0", "0", ":", "0", "0">>,
   <<"2", "3", ":", "5", "9">>,
   <<"2", "4", ":", "0", "0">>,
   <<"7", ":", "0", "0">>,
   <<"0", "7", ":", "6", "0">>}
Delays == {1, 7 * MinutesPerHour, MinutesPerDay - 1}
SchedFetches ==
  {FetchFailed,
   [ok |-> TRUE, games |-> <<>>],
   [ok |-> TRUE, games |-> <<FetchedGame("Cubs", "Cardinals", 1)>>],
   [ok |-> TRUE, games |-> <<FetchedGame("Mets", "Braves", 1)>>]}
SchedAnswers ==
  {[kind |-> "throw", recommendations |-> <<>>],
   [kind |-> "recs",
    recommendations |->
      <<LLMRec("Cubs vs. Cardinals", Odds150, 75, "Cubs Win")>>]}

NextSched ==
  \/ \E time \in RefreshTimes : Initialize(time)
  \/ \E time \in RefreshTimes : SetRefreshTime(time)
  \/ \E minutes \in Delays : Tick(minutes)
  \/ \E c \in CallIds, apiKey \in BOOLEAN, usable \in BOOLEAN :
       TimerFires(c, apiKey, usable)
  \/ \E c \in CallIds, apiKey \in BOOLEAN, usable \in BOOLEAN :
       ManualRefresh(c, apiKey, usable)
  \/ \E c \in CallIds, fetch \in SchedFetches, openaiKey \in BOOLEAN :
       PerformRefreshFetched(c, fetch, openaiKey)
  \/ \E c \in CallIds, llm \in SchedAnswers : PerformRefreshAnswered(c, llm)
  \/ \E c \in CallIds, apiKey \in BOOLEAN : BeginOddsRefresh(c, apiKey)
  \/ \E c \in CallIds, fetch \in SchedFetches : OddsRefreshFetched(c, fetch)
SpecSched == Init /\ [][NextSched]_vars

(***************************************************************************)
(* Vocabulary of the properties.                                           *)
(***************************************************************************)
\* This step is a call of op (every call advances the clock by one).
IsCall(op) == clock' = clock + 1 /\ lastCall'.op = op
Returned(op) == IsCall(op) /\ lastCall'.error = NoError
Bankroll == Get(bankrollSettingsData)
Bet(id) == BetIn(betHistoryData, id)
AfterReturn(op) == lastCall.op = op /\ lastCall.error = NoError

(***************************************************************************)
(* C1.  After every successful updateBetResult(id, result) the bankroll's  *)
(* currentAmount is its value before the call plus the profitLoss stored   *)
(* by the call, the bet's bankrollAfter is that new currentAmount, and the *)
(* bet's actualResult is the declared result.                              *)
(***************************************************************************)
C1_SettlementMovesBankroll ==
  [][Returned("updateBetResult") =>
       LET bet == BetIn(betHistoryData', lastCall'.input.id)
       IN /\ Bankroll'.currentAmount =
               NumAdd(Bankroll.currentAmount, bet.profitLoss)
          /\ bet.bankrollAfter = Bankroll'.currentAmount
          /\ bet.actualResult = lastCall'.input.actualResult]_vars

\* Bankroll 500, the bet of 50 at +120 declared won: 560 on both records.
C1_Witness ==
  /\ AfterReturn("updateBetResult")
  /\ lastCall.input.actualResult = "win"
  /\ Bet(lastCall.input.id).profitLoss = Num(60)
  /\ Bankroll.currentAmount = Num(560)
  /\ Bet(lastCall.input.id).bankrollAfter = Num(560)

(***************************************************************************)
(* C3.  Settlements are additive.  The bankroll's currentAmount is the     *)
(* amount of the last setBankrollSettings plus, for every later successful *)
(* updateBetResult in order, the profitLoss computed afresh from the bet's *)
(* stake and odds for the result declared then; a bet's earlier profitLoss *)
(* is never taken back.  Each settled bet carries the profitLoss of its    *)
(* latest declared result.                                                 *)
(***************************************************************************)
RECURSIVE Replay(_)
Replay(h) ==
  IF h = <<>> THEN Num(0)
  ELSE LET e == h[Len(h)]
           front == SubSeq(h, 1, Len(h) - 1)
       IN IF e.op = "set"
            THEN e.currentAmount
            ELSE NumAdd(Replay(front), ProfitLoss(Bet(e.id), e.actualResult))

Settles(id) == {i \in 1..Len(history) :
                  history[i].op = "settle" /\ history[i].id = id}
LastSettle(id) == history[CHOOSE i \in Settles(id) :
                            \A j \in Settles(id) : j <= i]

C3_ResettlementIsAdditive ==
  /\ IsDefined(bankrollSettingsData) =>
       Bankroll.currentAmount = Replay(history)
  /\ \A i \in 1..Len(betHistoryData) :
       LET bet == betHistoryData[i]
       IN Settles(bet.id) # {} =>
            bet.profitLoss = ProfitLoss(bet, LastSettle(bet.id).actualResult)

\* Bankroll 500, the bet of 50 at +120 settled as win and then as loss:
\* 500 + 60 - 50 = 510, where taking the win back would give 450.
C3_Witness ==
  /\ Len(history) = 3
  /\ history[1].op = "set" /\ history[1].currentAmount = Num(500)
  /\ history[2].op = "settle" /\ history[2].actualResult = "win"
  /\ history[3].op = "settle" /\ history[3].actualResult = "loss"
  /\ history[2].id = history[3].id
  /\ Bet(history[3].id).betAmount = Num(50)
  /\ Bet(history[3].id).odds = Odds120
  /\ Bankroll.currentAmount = Num(510)

(***************************************************************************)
(* C5.  updateBetResult on an existing bet while there is no bankroll      *)
(* record throws "Bankroll settings not initialized" and changes neither   *)
(* the bets, the bankroll, the counters nor any file.                      *)
(***************************************************************************)
C5_NotInitializedChangesNothing ==
  [][(/\ IsCall("updateBetResult")
      /\ MapHas(betHistoryData, lastCall'.input.id)
      /\ ~IsDefined(bankrollSettingsData))
       => /\ lastCall'.error = ErrNotInitialized
          /\ UNCHANGED <<memVars, fileVars>>]_vars

C5_Witness ==
  /\ lastCall.op = "updateBetResult"
  /\ lastCall.error = ErrNotInitialized
  /\ lastCall.input.actualResult = "win"
  /\ MapHas(betHistoryData, lastCall.input.id)
  /\ Bet(lastCall.input.id).actualResult = "pending"
  /\ ~IsDefined(bankrollSettingsData)
  /\ bankrollFile = Undefined

(***************************************************************************)
(* C6.  updateBetResult with an id that is not in the bet collection       *)
(* throws the not-found error, whose message differs from that of the      *)
(* not-initialized error, also when there is no bankroll record; the       *)
(* bankroll and every bet are unchanged.                                   *)
(***************************************************************************)
C6_NotFoundIsDistinct ==
  [][(/\ IsCall("updateBetResult")
      /\ ~MapHas(betHistoryData, lastCall'.input.id))
       => /\ lastCall'.error = ErrNotFound
          /\ lastCall'.error # ErrNotInitialized
          /\ UNCHANGED <<memVars, fileVars>>]_vars

C6_Witness ==
  /\ lastCall.op = "updateBetResult"
  /\ lastCall.error = ErrNotFound
  /\ ~MapHas(betHistoryData, lastCall.input.id)
  /\ ~IsDefined(bankrollSettingsData)
  /\ Len(betHistoryData) > 0

(***************************************************************************)
(* C2.  The profitLoss that updateBetResult stores, for every stake and    *)
(* every odds string of the tables: 0 for pending; -stake for loss,        *)
(* whatever the odds; stake*N/100 for a win at "+N"; stake*100/N for a win *)
(* at "-N".                                                                *)
(***************************************************************************)
OddsEntry(odds) == CHOOSE e \in OddsTable : e.odds = odds

C2_ProfitLossFormula ==
  AfterReturn("updateBetResult") =>
    LET bet == Bet(lastCall.input.id)
        stake == bet.betAmount
        e == OddsEntry(bet.odds)
        result == lastCall.input.actualResult
    IN /\ result = "pending" => bet.profitLoss = Num(0)
       /\ result = "loss" => bet.profitLoss = Fin(-stake.n, stake.d)
       /\ result = "win" /\ e.sign = "+" =>
            bet.profitLoss = Fin(stake.n * e.N, stake.d * 100)
       /\ result = "win" /\ e.sign = "-" =>
            bet.profitLoss = Fin(stake.n * 100, stake.d * e.N)

\* Stake 110 at -110 declared won: 100.
C2_Witness ==
  /\ AfterReturn("updateBetResult")
  /\ lastCall.input.actualResult = "win"
  /\ Bet(1).betAmount = Num(110)
  /\ Bet(1).odds = OddsM110
  /\ Bet(1).profitLoss = Num(100)

(***************************************************************************)
(* C4.  In the normal life of the ledger, whenever the bankroll exists,    *)
(* currentAmount - initialAmount is the sum of the profitLoss of all bets. *)
(* As claimed (C4_Original) this holds for every setBankrollSettings; it   *)
(* holds (C4_LedgerBalances) when the bankroll was set with currentAmount  *)
(* equal to initialAmount.                                                 *)
(***************************************************************************)
RECURSIVE SumProfitLoss(_)
SumProfitLoss(bets) ==
  IF bets = <<>> THEN Num(0)
  ELSE NumAdd(bets[1].profitLoss, SumProfitLoss(Tail(bets)))

Balanced ==
  NumAdd(Bankroll.currentAmount, NumNeg(Bankroll.initialAmount))
    = SumProfitLoss(betHistoryData)

SetEvenly ==
  \E i \in 1..Len(history) :
    /\ history[i].op = "set"
    /\ history[i].currentAmount = history[i].initialAmount

IdsInCreationOrder(m, counter, created(_)) ==
  /\ MapIds(m) = [i \in 1..Len(m) |-> i]
  /\ \A i, j \in 1..Len(m) : i # j => m[i].id # m[j].id
  /\ \A i, j \in 1..Len(m) : created(m[i]) < created(m[j]) => m[i].id < m[j].id
  /\ counter = Len(m) + 1

UploadDateOf(g) == g.uploadDate
GeneratedAtOf(r) == r.generatedAt
CreatedAtOf(b) == b.createdAt

C7_IdsAreOneToN ==
  /\ IdsInCreationOrder(gamesData, gameId, UploadDateOf)
  /\ IdsInCreationOrder(recommendationsData, recommendationId, GeneratedAtOf)
  /\ IdsInCreationOrder(betHistoryData, betHistoryId, CreatedAtOf)

\* Two games, two recommendations and a bet, each made by a call of its own.
C7_Witness ==
  /\ Len(gamesData) = 2 /\ gamesData[1].uploadDate < gamesData[2].uploadDate
  /\ Len(recommendationsData) = 2
  /\ recommendationsData[1].generatedAt < recommendationsData[2].generatedAt
  /\ Len(betHistoryData) = 1
  /\ gameId = 3 /\ recommendationId = 3 /\ betHistoryId = 2

(***************************************************************************)
(* C8.  When createRecommendations(list) has returned, the store holds     *)
(* exactly the recommendations of list, in input order with ids            *)
(* 1..list.length, all made by this call (none of the earlier ones is      *)
(* left), and the recommendation counter is list.length + 1.               *)
(***************************************************************************)
C8_ReplaceAllRecommendations ==
  AfterReturn("createRecommendations") =>
    LET list == lastCall.input.list
    IN /\ Len(recommendationsData) = Len(list)
       /\ \A i \in 1..Len(list) :
            /\ recommendationsData[i].id = i
            /\ recommendationsData[i].game = list[i].game
            /\ recommendationsData[i].odds = list[i].odds
            /\ recommendationsData[i].confidence = list[i].confidence
            /\ recommendationsData[i].generatedAt = clock - 1
       /\ recommendationId = Len(list) + 1

\* Two stored recommendations replaced by a list of one.
C8_Witness ==
  /\ AfterReturn("createRecommendations")
  /\ lastCall.input.replaced = 2
  /\ Len(lastCall.input.list) = 1
  /\ Len(recommendationsData) = 1
  /\ recommendationId = 2

(***************************************************************************)
(* C9.  When an ingestion from the live feed (POST /api/odds/refresh,      *)
(* POST /api/odds/fetch-and-generate or the scheduler's performRefresh)    *)
(* has fetched a list of games and stored it, the store holds exactly the  *)
(* fetched list: as many games as the list, with ids 1..list.length in     *)
(* input order, all stored by this call, and no game from before.  The     *)
(* case is the one where every fetched game passes insertGameSchema, so    *)
(* that no path rejects or skips any of them.                              *)
(***************************************************************************)
FullRefreshOps ==
  {"POST /api/odds/refresh", "POST /api/odds/fetch-and-generate",
   "performRefresh"}
IngestionCompleted ==
  /\ lastCall.op \in FullRefreshOps
  /\ lastCall.input.fetch.ok
  /\ lastCall.input.fetch.games # <<>>
  /\ \A i \in 1..Len(lastCall.input.fetch.games) :
       ValidGame(lastCall.input.fetch.games[i])
HoldsExactly(list) ==
  /\ Len(gamesData) = Len(list)
  /\ \A i \in 1..Len(list) :
       /\ gamesData[i].id = i
       /\ gamesData[i].homeTeam = list[i].homeTeam
       /\ gamesData[i].awayTeam = list[i].awayTeam
       /\ gamesData[i].uploadDate = clock - 1
C9_Original == IngestionCompleted => HoldsExactly(lastCall.input.fetch.games)

\* What the two clearing paths do satisfy.
C9_ClearingPaths ==
  (IngestionCompleted /\ lastCall.op # "POST /api/odds/fetch-and-generate")
    => HoldsExactly(lastCall.input.fetch.games)

(***************************************************************************)
(* C10.  A refresh by the scheduler or by POST /api/odds/refresh during    *)
(* which the odds API is unavailable (the fetch throws or yields no game)  *)
(* leaves the stored games as they were before the refresh.                *)
(***************************************************************************)
ApiUnavailable(op) ==
  /\ IsCall(op)
  /\ lastCall'.input.apiKey
  /\ lastCall'.input.fetch \in
       {FetchFailed, [ok |-> TRUE, games |-> <<>>]}
C10_Original ==
  [][(ApiUnavailable("POST /api/odds/refresh") \/
      ApiUnavailable("performRefresh"))
       => gamesData' = gamesData]_vars

(***************************************************************************)
(* C11.  After any sequence of mutating calls whose file writes all        *)
(* succeed, a restart (a new FileStorage on the same, undamaged directory) *)
(* yields the games, recommendations, bets, bankroll record and id         *)
(* counters that were in memory before it.                                 *)
(***************************************************************************)
C11_Original ==
  [][(IsCall("restart") /\ corruptFiles = {}) => memVars' = memVars]_vars

\* The same for the stores all of whose amounts are finite numbers.
AllFinite ==
  /\ \A i \in 1..Len(betHistoryData) :
       /\ IsFinite(betHistoryData[i].betAmount)
       /\ IsFinite(betHistoryData[i].profitLoss)
       /\ IsFinite(betHistoryData[i].bankrollAfter)
  /\ IsDefined(bankrollSettingsData) =>
       /\ IsFinite(Bankroll.initialAmount)
       /\ IsFinite(Bankroll.currentAmount)
C11_FiniteRoundTrip ==
  [][(IsCall("restart") /\ corruptFiles = {} /\ AllFinite)
       => memVars' = memVars]_vars

(***************************************************************************)
(* C12.  After a start-up at which exactly one file does not parse, the    *)
(* structure kept in that file is empty (the collection), absent (the      *)
(* bankroll) or at 1 (the counters), and every other file that exists is   *)
(* loaded whole: what is in memory is what the file holds.                 *)
(***************************************************************************)
JSONOf(m, toJSON(_)) == [i \in 1..Len(m) |-> toJSON(m[i])]
LoadedOrEmpty(name, file, isEmpty, holdsFile) ==
  IF name \in corruptFiles THEN isEmpty ELSE (IsDefined(file) => holdsFile)
LoadedButCorrupt ==
    /\ LoadedOrEmpty("games", gamesFile, gamesData = <<>>,
                     JSONOf(gamesData, GameToJSON) = Get(gamesFile))
    /\ LoadedOrEmpty("recommendations", recommendationsFile,
                     recommendationsData = <<>>,
                     JSONOf(recommendationsData, RecommendationToJSON)
                       = Get(recommendationsFile))
    /\ LoadedOrEmpty("bets", betsFile, betHistoryData = <<>>,
                     JSONOf(betHistoryData, BetToJSON) = Get(betsFile))
    /\ LoadedOrEmpty("bankroll", bankrollFile,
                     bankrollSettingsData = Undefined,
                     /\ IsDefined(bankrollSettingsData)
                     /\ BankrollToJSON(Bankroll) = Get(bankrollFile))
    /\ LoadedOrEmpty("counters", countersFile,
                     /\ gameId = 1 /\ recommendationId = 1
                     /\ exportId = 1 /\ betHistoryId = 1,
                     /\ gameId = Get(countersFile).gameId
                     /\ recommendationId = Get(countersFile).recommendationId
                     /\ exportId = Get(countersFile).exportId
                     /\ betHistoryId = Get(countersFile).betHistoryId)
C12_OneCorruptFile ==
  [][(IsCall("restart") /\ Cardinality(corruptFiles) = 1)
       => LoadedButCorrupt']_vars

\* A restart with a damaged bets file that holds a bet: no bet is loaded,
\* the game, the bankroll and the counters are.
C12_Witness ==
  /\ lastCall.op = "restart"
  /\ corruptFiles = {"bets"}
  /\ Len(Get(betsFile)) = 1
  /\ betHistoryData = <<>>
  /\ Len(gamesData) = 1
  /\ IsDefined(bankrollSettingsData)
  /\ betHistoryId = 2

(***************************************************************************)
(* C13.  Each next-id counter is greater than every id of its collection,  *)
(* also after a restart that follows the death of the process between the  *)
(* write of a collection file and the write of counters.json, and after a  *)
(* restart without a readable counters.json.                               *)
(***************************************************************************)
CounterAhead(m, counter) == \A i \in 1..Len(m) : m[i].id < counter
C13_Original ==
  /\ CounterAhead(gamesData, gameId)
  /\ CounterAhead(recommendationsData, recommendationId)
  /\ CounterAhead(betHistoryData, betHistoryId)

(***************************************************************************)
(* C14.  When the process dies between two writes of updateBetResult on a  *)
(* pending bet and is restarted, the recovered bet carries the declared    *)
(* result exactly if the recovered bankroll includes the profitLoss of the *)
(* settlement.                                                             *)
(***************************************************************************)
DiedIn(op) == IsCall(op) /\ lastCall'.error = ErrCrashed
C14_Original ==
  [][LET id == lastCall'.input.arg.id
         result == lastCall'.input.arg.actualResult
     IN (/\ DiedIn("updateBetResult")
         /\ ~lastCall'.input.io.torn
         /\ MapHas(betHistoryData, id)
         /\ IsDefined(bankrollSettingsData)
         /\ Bet(id).actualResult = "pending"
         /\ IsFinite(ProfitLoss(Bet(id), result)))
        => (BetIn(betHistoryData', id).actualResult = result
              <=> Get(bankrollSettingsData').currentAmount =
                    NumAdd(Bankroll.currentAmount,
                           ProfitLoss(Bet(id), result)))]_vars

(***************************************************************************)
(* C15.  A mutating call some of whose file writes fail still returns      *)
(* without an error, and leaves in memory exactly what the same call       *)
(* leaves when every write succeeds: nothing is rolled back.               *)
(***************************************************************************)
StoreOps ==
  {"createGame", "createGames", "clearGames", "createRecommendations",
   "createBet", "setBankrollSettings", "updateBankrollAmount",
   "updateBetResult"}
MemOf(S) ==
  <<S.gamesData, S.recommendationsData, S.betHistoryData,
    S.bankrollSettingsData, S.gameId, S.recommendationId, S.exportId,
    S.betHistoryId>>
C15_WriteFailureIsSilent ==
  [][\A op \in StoreOps :
       (IsCall(op) /\ lastCall'.input.io.fail # {}) =>
         /\ lastCall'.error = NoError
         /\ memVars' = MemOf(Apply(op, lastCall'.input.arg, Storage, clock).S)
    ]_vars

\* A createBet whose write of bets.json failed: the bet is in memory with
\* its id issued, the file was never made, and the call returned.
C15_Witness ==
  /\ lastCall.op = "createBet"
  /\ lastCall.input.io.fail = {1}
  /\ lastCall.error = NoError
  /\ Len(betHistoryData) = 1
  /\ betHistoryId = 2
  /\ betsFile = Undefined
  /\ IsDefined(countersFile)

(***************************************************************************)
(* C16.  When a mutating call returns, the file of every collection that   *)
(* the call changed holds the JSON of what is in memory, and counters.json *)
(* holds the counters when the call changed one.  The original statement   *)
(* is for every returning call; the amended one for the calls none of      *)
(* whose writes failed.                                                    *)
(***************************************************************************)
Durable ==
  /\ gamesData' # gamesData =>
       gamesFile' = Some(JSONOf(gamesData', GameToJSON))
  /\ recommendationsData' # recommendationsData =>
       recommendationsFile' =
         Some(JSONOf(recommendationsData', RecommendationToJSON))
  /\ betHistoryData' # betHistoryData =>
       betsFile' = Some(JSONOf(betHistoryData', BetToJSON))
  /\ bankrollSettingsData' # bankrollSettingsData =>
       bankrollFile' = Some(BankrollToJSON(Get(bankrollSettingsData')))
  /\ <<gameId, recommendationId, exportId, betHistoryId>>' #
       <<gameId, recommendationId, exportId, betHistoryId>> =>
       countersFile' =
         Some([gameId |-> gameId', recommendationId |-> recommendationId',
               exportId |-> exportId', betHistoryId |-> betHistoryId'])
C16_Original ==
  [][\A op \in StoreOps : Returned(op) => Durable]_vars
C16_DurableWhenWritten ==
  [][\A op \in StoreOps :
       (Returned(op) /\ lastCall'.input.io.fail = {}) => Durable]_vars

\* A settlement, all of whose writes succeeded, after a createBet whose
\* writes all failed: bets.json and bankroll.json hold what is in memory.
C16_Witness ==
  /\ lastCall.op = "updateBetResult"
  /\ lastCall.input.io.fail = {}
  /\ lastCall.error = NoError
  /\ countersFile = Undefined
  /\ Len(betHistoryData) = 1
  /\ betHistoryData[1].actualResult = "win"
  /\ betsFile = Some(JSONOf(betHistoryData, BetToJSON))
  /\ bankrollFile = Some(BankrollToJSON(Bankroll))

(***************************************************************************)
(* C17.  When two updateBetResult calls on two different bets overlap and  *)
(* both have returned, the bankroll's currentAmount is the amount at the   *)
(* start of the first plus the profitLoss of both settlements.             *)
(***************************************************************************)
BothSettled(c, d) ==
  /\ inflight[c].pc = "done" /\ inflight[d].pc = "done"
  /\ inflight[d].overlapped
  /\ inflight[c].update.id # inflight[d].update.id
C17_Original ==
  \A c, d \in CallIds :
    (c < d /\ BothSettled(c, d)) =>
      Bankroll.currentAmount =
        NumAdd(NumAdd(Get(inflight[c].before), inflight[c].profitLoss),
               inflight[d].profitLoss)

(***************************************************************************)
(* C18.  Placing a bet whose stake is not positive, whose confidence is    *)
(* outside 1..100 or whose date is missing fails, stores no bet and issues *)
(* no id, whatever client sent it.                                         *)
(***************************************************************************)
Rejected == lastCall'.error # NoError
C18_Original ==
  [][(/\ (IsCall("POST /api/bets") \/ IsCall("createBet"))
      /\ \/ ~IsFinite(lastCall'.input.betAmount)
         \/ lastCall'.input.betAmount.n <= 0
         \/ lastCall'.input.confidence < 1
         \/ lastCall'.input.confidence > 100
         \/ ~IsString(lastCall'.input.date))
       => /\ Rejected
          /\ betHistoryData' = betHistoryData
          /\ betHistoryId' = betHistoryId]_vars

(***************************************************************************)
(* C19.  A bet is pending with profitLoss 0 right after it is created,     *)
(* whatever the input holds, and in every state every pending bet has      *)
(* profitLoss 0.                                                           *)
(***************************************************************************)
Zero == Num(0)
C19_Original ==
  /\ \A i \in 1..Len(betHistoryData) :
       betHistoryData[i].actualResult = "pending" =>
         betHistoryData[i].profitLoss = Zero
  /\ (lastCall.op \in {"createBet", "POST /api/bets"}
        /\ lastCall.error = NoError) =>
       /\ betHistoryData[Len(betHistoryData)].actualResult = "pending"
       /\ betHistoryData[Len(betHistoryData)].profitLoss = Zero

(***************************************************************************)
(* C20.  Once the bankroll record exists, no step changes its              *)
(* initialAmount or its createdAt, and currentAmount changes only in a     *)
(* settlement (updateBetResult, updateBankrollAmount).                     *)
(***************************************************************************)
C20_Original ==
  [][IsDefined(bankrollSettingsData) =>
       /\ IsDefined(bankrollSettingsData')
       /\ Get(bankrollSettingsData').initialAmount = Bankroll.initialAmount
       /\ Get(bankrollSettingsData').createdAt = Bankroll.createdAt
       /\ Get(bankrollSettingsData').currentAmount # Bankroll.currentAmount
            => lastCall'.op \in {"updateBetResult", "updateBankrollAmount"}
    ]_vars

(***************************************************************************)
(* C21.  setBankrollSettings with a negative initial or current amount     *)
(* fails and leaves the bankroll record as it was, so no record with a     *)
(* negative initialAmount is ever stored.                                  *)
(***************************************************************************)
Negative(x) == IsFinite(x) /\ x.n < 0
C21_Original ==
  [][(/\ IsCall("setBankrollSettings")
      /\ \/ Negative(lastCall'.input.initialAmount)
         \/ Negative(lastCall'.input.currentAmount))
       => /\ Rejected
          /\ bankrollSettingsData' = bankrollSettingsData]_vars

(***************************************************************************)
(* C23.  A provenance value that the input of createRecommendation         *)
(* supplies is the value stored on the created recommendation; the         *)
(* sentinel default is stored only for a field the input leaves out.       *)
(***************************************************************************)
Supplied(given, default) == IF IsString(given) THEN given ELSE default
C23_Original ==
  AfterReturn("createRecommendation") =>
    LET rec == recommendationsData[Len(recommendationsData)]
        input == lastCall.input
    IN /\ rec.gameSource = Supplied(input.gameSource, "Manual Input")
       /\ rec.betTypeSource = Supplied(input.betTypeSource, "LLM")
       /\ rec.oddsSource = Supplied(input.oddsSource, "LLM")
       /\ rec.confidenceSource = Supplied(input.confidenceSource, "LLM")
       /\ rec.predictionSource = Supplied(input.predictionSource, "LLM")

(***************************************************************************)
(* C22.  In every state every stored recommendation has a confidence in    *)
(* 1..100 and odds that start with '+' or '-', whichever path stored it.   *)
(* This original statement fails for a direct createRecommendation(s)      *)
(* call.  What holds: a call of a generate endpoint or of the scheduler    *)
(* either leaves the recommendations as they were or leaves only           *)
(* recommendations with a confidence in 1..100 and signed odds.            *)
(***************************************************************************)
ValidRecommendation(rec) ==
  /\ rec.confidence >= 1 /\ rec.confidence <= 100
  /\ (startsWith(rec.odds, "+") \/ startsWith(rec.odds, "-"))
GeneratePaths ==
  {"POST /api/recommendations/generate", "POST /api/odds/fetch-and-generate",
   "performRefresh"}
IsGenerateCall == clock' = clock + 1 /\ lastCall'.op \in GeneratePaths
Missing(v) == v \in {UndefStr, NullStr}
BadRec(rec) ==
  \/ Missing(rec.game) \/ Missing(rec.betType) \/ Missing(rec.prediction)
  \/ rec.odds = <<>>
  \/ ~ValidRecommendation(rec)
BadAnswer(llm) ==
  \/ llm.kind \in {"empty", "nojson"}
  \/ /\ llm.kind = "recs"
     /\ \/ llm.recommendations = <<>>
        \/ \E i \in 1..Len(llm.recommendations) : BadRec(llm.recommendations[i])
C28_BadAnswerStoresNothing ==
  [][(IsGenerateCall /\ BadAnswer(lastCall'.input.llm)) =>
       /\ recommendationsData' = recommendationsData
       /\ recommendationId' = recommendationId]_vars

\* The scheduler has read an answer with a bad recommendation in it while
\* a recommendation was stored, and that one is still there.
C28_Witness ==
  /\ lastCall.op = "performRefresh"
  /\ lastCall.input.llm.kind = "recs"
  /\ BadAnswer(lastCall.input.llm)
  /\ Len(lastCall.input.llm.recommendations) = 2
  /\ Len(recommendationsData) = 1
  /\ recommendationsData[1].generatedAt < clock - 1
  /\ recommendationId = 2

(***************************************************************************)
(* C24.  Declaring a win on a bet whose odds are not one leading '+' or    *)
(* '-' followed by a non-zero number is rejected and changes neither the   *)
(* bets nor the bankroll, and the bankroll's currentAmount is a finite     *)
(* number after every step.                                                *)
(***************************************************************************)
SignedNonZero(odds) ==
  /\ Len(odds) >= 2
  /\ odds[1] \in {"+", "-"}
  /\ \A i \in 2..Len(odds) : odds[i] \in Digits
  /\ DigitsValue(Tail(odds), 0) # 0
WinOnBadOdds ==
  /\ IsCall("updateBetResult")
  /\ lastCall'.input.actualResult = "win"
  /\ MapHas(betHistoryData, lastCall'.input.id)
  /\ ~SignedNonZero(Bet(lastCall'.input.id).odds)
C24_Original ==
  [][/\ WinOnBadOdds =>
          /\ Rejected
          /\ betHistoryData' = betHistoryData
          /\ bankrollSettingsData' = bankrollSettingsData
     /\ IsDefined(bankrollSettingsData') =>
          IsFinite(Get(bankrollSettingsData').currentAmount)]_vars

(***************************************************************************)
(* C25.  A successful updateBetResult(id, ...) changes on the bet id only  *)
(* actualResult, profitLoss, bankrollAfter, notes and updatedAt; every     *)
(* other field of it, every other bet, the order of the bets, the bet id   *)
(* counter, the games and the recommendations are as before.               *)
(***************************************************************************)
OutsideSettlement(bet) ==
  [bet EXCEPT !.actualResult = "", !.profitLoss = Zero,
              !.bankrollAfter = Zero, !.notes = "", !.updatedAt = 0]
C25_SettlementFrame ==
  [][Returned("updateBetResult") =>
       /\ Len(betHistoryData') = Len(betHistoryData)
       /\ \A i \in 1..Len(betHistoryData) :
            IF betHistoryData[i].id = lastCall'.input.id
              THEN OutsideSettlement(betHistoryData'[i]) =
                     OutsideSettlement(betHistoryData[i])
              ELSE betHistoryData'[i] = betHistoryData[i]
       /\ betHistoryId' = betHistoryId
       /\ gameId' = gameId /\ recommendationId' = recommendationId
       /\ gamesData' = gamesData
       /\ recommendationsData' = recommendationsData]_vars

\* The second of two bets has been settled as a win some time after it was
\* created; the first is still pending.
C25_Witness ==
  /\ AfterReturn("updateBetResult")
  /\ lastCall.input.id = 2
  /\ Len(betHistoryData) = 2
  /\ betHistoryData[1].actualResult = "pending"
  /\ betHistoryData[2].actualResult = "win"
  /\ betHistoryData[2].profitLoss # Zero
  /\ betHistoryData[2].createdAt < betHistoryData[2].updatedAt

(***************************************************************************)
(* C26.  No step changes a bet through the recommendations, and no step    *)
(* puts a different recommendation under an id that a bet refers to: when  *)
(* a bet's recommendationId is the id of a stored recommendation before    *)
(* and after a step, it says the same before and after.                    *)
(***************************************************************************)
\* What a recommendation says, whenever it was generated.
Advice(rec) == [rec EXCEPT !.generatedAt = 0]
RecommendationCalls ==
  {"createRecommendation", "createRecommendations", "clearRecommendations"}
C26_Original ==
  [][/\ lastCall'.op \in RecommendationCalls =>
          betHistoryData' = betHistoryData
     /\ \A i \in 1..Len(betHistoryData) :
          LET id == betHistoryData[i].recommendationId
          IN (MapHas(recommendationsData, id) /\ MapHas(recommendationsData', id))
               => Advice(Get(MapGet(recommendationsData', id))) =
                    Advice(Get(MapGet(recommendationsData, id)))]_vars

(***************************************************************************)
(* C27.  When two game refreshes have overlapped, each has stored the list *)
(* it fetched and both have ended, the games collection is the list of     *)
(* one of them: as many games, with ids 1..N, in the order fetched.        *)
(***************************************************************************)
StoredItsList(c) ==
  /\ refreshes[c].pc = "done"
  /\ refreshes[c].fetch.ok
  /\ refreshes[c].fetch.games # <<>>
  /\ \A i \in 1..Len(refreshes[c].fetch.games) :
       ValidGame(refreshes[c].fetch.games[i])
GamesAre(list) ==
  /\ Len(gamesData) = Len(list)
  /\ \A i \in 1..Len(list) :
       /\ gamesData[i].id = i
       /\ gamesData[i].homeTeam = list[i].homeTeam
       /\ gamesData[i].awayTeam = list[i].awayTeam
C27_Original ==
  \A c, d \in CallIds :
    (/\ c # d
     /\ StoredItsList(c) /\ StoredItsList(d)
     /\ refreshes[d].overlapped)
      => \/ GamesAre(refreshes[c].fetch.games)
         \/ GamesAre(refreshes[d].fetch.games)

(***************************************************************************)
(* C29.  Every run of performRefresh, however it ends (no ODDS_API_KEY, no *)
(* games, an exception in fetching, storing or generating, or success),    *)
(* ends with the timer armed for a time strictly after now; and once a     *)
(* refresh has been scheduled, a timer is pending or a run is under way.   *)
(***************************************************************************)
Armed ==
  \E timer \in scheduler.timers :
    /\ timer.id = scheduler.scheduledRefreshTimeout
    /\ timer.due > scheduler.now
RunUnderWay ==
  \E c \in CallIds : refreshes[c].op = "performRefresh" /\ RefreshBusy(c)
C29_EveryRunRearms ==
  [][/\ IsCall("performRefresh") => Armed'
     /\ IsDefined(scheduler'.lastScheduledTime) =>
          (scheduler'.timers # {} \/ RunUnderWay')]_vars

\* The timer armed by initialize for 07:00 has fired at 07:00, the fetch
\* has thrown, and the run has armed the timer for 07:00 of the next day.
C29_Witness ==
  /\ lastCall.op = "performRefresh"
  /\ lastCall.input.apiKey
  /\ lastCall.input.pc = "fetching"
  /\ ~lastCall.input.fetch.ok
  /\ scheduler.now = MinutesOf(DefaultRefreshTime)
  /\ scheduler.timers =
       {[id |-> scheduler.scheduledRefreshTimeout,
         due |-> MinutesOf(DefaultRefreshTime) + MinutesPerDay]}

(***************************************************************************)
(* C30.  After any interleaving of initialize, setRefreshTime,             *)
(* manualRefresh and timer-fired runs at most one timer is pending, and    *)
(* setRefreshTime with a string that is not HH:MM (00:00-23:59) changes    *)
(* neither the refresh time nor the pending timer.                         *)
(***************************************************************************)
C30_OneTimer ==
  [][/\ Cardinality(scheduler'.timers) <= 1
     /\ (IsCall("setRefreshTime") /\ ~TimeOk(lastCall'.input.time)) =>
          /\ scheduler'.refreshTime = scheduler.refreshTime
          /\ scheduler'.timers = scheduler.timers
          /\ scheduler'.scheduledRefreshTimeout =
               scheduler.scheduledRefreshTimeout]_vars

\* A refresh time set while the timer of initialize was pending: that
\* timer is gone and the new one is the only one.
C30_Witness ==
  /\ lastCall.op = "setRefreshTime"
  /\ lastCall.input.time = <<"2", "3", ":", "5", "9">>
  /\ scheduler.refreshTime = lastCall.input.time
  /\ scheduler.nextTimer >= 4
  /\ Cardinality(scheduler.timers) = 1
  /\ \E timer \in scheduler.timers :
       timer.due = MinutesPerDay - 1 /\ timer.id = scheduler.nextTimer - 1

====
